---- MODULE Spec2Model ----
(***************************************************************************)
(* ai-footprint: deterministic energy / CO2 estimator for one AI inference *)
(* call (src/src/index.ts).                                                *)
(*                                                                         *)
(* The library is a set of synchronous functions.  Each exported function  *)
(* is one action: it draws an input, evaluates the function as the source  *)
(* does, and records the outcome (result or thrown error) together with    *)
(* the side effects the call made: invocations of the caller-supplied      *)
(* gridIntensityResolver and console.warn messages, in order.              *)
(*                                                                         *)
(* JavaScript values are records [t, n, d]:                                *)
(*   t = "num"   the finite number n/d (d > 0, lowest terms)               *)
(*   t = "nan" | "inf" | "ninf"   NaN, +Infinity, -Infinity                *)
(*   t = "undef" the field is absent (undefined)                           *)
(*   t = "str"   a non-numeric string,  t = "obj" an object or function    *)
(* Finite arithmetic is exact (IEEE rounding, overflow and underflow are   *)
(* not modelled); NaN and the infinities follow IEEE 754.  The sums of the *)
(* Aggregator are the exception: they round as IEEE 754 doubles do (see    *)
(* DoubleAdd).                                                             *)
(***************************************************************************)
EXTENDS Integers, Sequences, FiniteSets, TLC

VARIABLES pc, op, input, ranges, outcome, envelope, evaluations,
          resolverCalls, warnings, results, aggregate

vars == <<pc, op, input, ranges, outcome, envelope, evaluations,
          resolverCalls, warnings, results, aggregate>>

(***************************************************************************)
(* JavaScript numbers and values                                           *)
(***************************************************************************)
Abs(i) == IF i < 0 THEN -i ELSE i

RECURSIVE Gcd(_, _)
Gcd(a, b) == IF b = 0 THEN a ELSE Gcd(b, a % b)

\* the fraction n/d (d # 0) in lowest terms with a positive denominator
Reduced(n, d, g) == [t |-> "num", n |-> n \div g, d |-> d \div g]
Num(n, d) ==
  IF d < 0 THEN Reduced(-n, -d, Gcd(Abs(n), Abs(d)))
  ELSE Reduced(n, d, Gcd(Abs(n), Abs(d)))

Whole(n) == [t |-> "num", n |-> n, d |-> 1]
NaN == [t |-> "nan", n |-> 0, d |-> 1]
Infinity == [t |-> "inf", n |-> 0, d |-> 1]
NegInfinity == [t |-> "ninf", n |-> 0, d |-> 1]
Undefined == [t |-> "undef", n |-> 0, d |-> 1]
StrVal == [t |-> "str", n |-> 0, d |-> 1]
ObjVal == [t |-> "obj", n |-> 0, d |-> 1]
Zero == Whole(0)

\* typeof v === "number"
IsNumber(v) == v.t \in {"num", "nan", "inf", "ninf"}

\* Number.isFinite(v)
IsFinite(v) == v.t = "num"

\* ToNumber(v) as the arithmetic and relational operators apply it
ToNumber(v) == IF IsNumber(v) THEN v ELSE NaN

\* ToBoolean(v): 0, NaN and undefined are falsy
Truthy(v) ==
  CASE v.t = "num" -> v.n # 0
    [] v.t \in {"nan", "undef"} -> FALSE
    [] OTHER -> TRUE

\* sign of a number value: -1, 0, 1 (NaN excluded by the callers)
Sign(v) ==
  CASE v.t = "inf" -> 1
    [] v.t = "ninf" -> -1
    [] OTHER -> IF v.n > 0 THEN 1 ELSE IF v.n < 0 THEN -1 ELSE 0

\* a < b on numbers (false when either side is NaN)
LtNum(a, b) ==
  CASE a.t = "nan" \/ b.t = "nan" -> FALSE
    [] a.t = "inf" -> FALSE
    [] b.t = "ninf" -> FALSE
    [] a.t = "ninf" -> TRUE
    [] b.t = "inf" -> TRUE
    [] OTHER -> a.n * b.d < b.n * a.d

\* a < b on values: both sides are converted to numbers first
Lt(a, b) == LtNum(ToNumber(a), ToNumber(b))

Gt(a, b) == Lt(b, a)
\* a <= b, a >= b: false when either side is NaN
LeNum(a, b) == LtNum(a, b) \/ (a.t # "nan" /\ a = b)
Le(a, b) == LeNum(ToNumber(a), ToNumber(b))
Ge(a, b) == Le(b, a)

\* a + b, a * b, a / b on numbers
AddNum(a, b) ==
  CASE a.t = "nan" \/ b.t = "nan" -> NaN
    [] a.t = "inf" -> IF b.t = "ninf" THEN NaN ELSE Infinity
    [] a.t = "ninf" -> IF b.t = "inf" THEN NaN ELSE NegInfinity
    [] b.t \in {"inf", "ninf"} -> b
    [] OTHER -> Num(a.n * b.d + b.n * a.d, a.d * b.d)

MulNum(a, b) ==
  CASE a.t = "nan" \/ b.t = "nan" -> NaN
    [] a.t = "num" /\ b.t = "num" -> Num(a.n * b.n, a.d * b.d)
    [] Sign(a) * Sign(b) = 0 -> NaN
    [] Sign(a) * Sign(b) > 0 -> Infinity
    [] OTHER -> NegInfinity

DivNum(a, b) ==
  CASE a.t = "nan" \/ b.t = "nan" -> NaN
    [] a.t # "num" /\ b.t # "num" -> NaN
    [] a.t # "num" -> IF Sign(a) * Sign(b) >= 0 THEN a
                      ELSE IF a.t = "inf" THEN NegInfinity ELSE Infinity
    [] b.t # "num" -> Zero
    [] b.n = 0 -> IF a.n = 0 THEN NaN
                  ELSE IF a.n > 0 THEN Infinity ELSE NegInfinity
    [] OTHER -> Num(a.n * b.d, a.d * b.n)

\* the operators on values: both sides are converted to numbers first
Add(a, b) == AddNum(ToNumber(a), ToNumber(b))
Mul(a, b) == MulNum(ToNumber(a), ToNumber(b))
Div(a, b) == DivNum(ToNumber(a), ToNumber(b))

\* Math.min / Math.max: NaN if either argument is NaN
MinNum(a, b) ==
  IF a.t = "nan" \/ b.t = "nan" THEN NaN ELSE IF LtNum(b, a) THEN b ELSE a

MaxNum(a, b) ==
  IF a.t = "nan" \/ b.t = "nan" THEN NaN ELSE IF LtNum(a, b) THEN b ELSE a

MathMin(a, b) == MinNum(ToNumber(a), ToNumber(b))
MathMax(a, b) == MaxNum(ToNumber(a), ToNumber(b))

\* a ?? b
Coalesce(a, b) == IF a.t = "undef" THEN b ELSE a

\* value.toFixed(2): the digits printed, as the number rounded to hundredths
\* (half away from zero); NaN and the infinities print as themselves
ToFixed2(v) ==
  IF v.t # "num" THEN v
  ELSE Num((IF v.n >= 0 THEN (200 * v.n + v.d) \div (2 * v.d)
            ELSE -((200 * (-v.n) + v.d) \div (2 * v.d))), 100)

\* a note of the result: a template string with at most one interpolated
\* value, as <<text before, value, text after>>
Note(before, v, after) == <<before, v, after>>
TextNote(text) == <<text, Undefined, "">>

(***************************************************************************)
(* Region strings are sequences of one-character strings, so that          *)
(* toLowerCase() and trim() are computed rather than assumed.              *)
(***************************************************************************)
UpperToLower ==
  { <<"A", "a">>, <<"B", "b">>, <<"C", "c">>, <<"D", "d">>, <<"E", "e">>,
    <<"F", "f">>, <<"G", "g">>, <<"H", "h">>, <<"I", "i">>, <<"J", "j">>,
    <<"K", "k">>, <<"L", "l">>, <<"M", "m">>, <<"N", "n">>, <<"O", "o">>,
    <<"P", "p">>, <<"Q", "q">>, <<"R", "r">>, <<"S", "s">>, <<"T", "t">>,
    <<"U", "u">>, <<"V", "v">>, <<"W", "w">>, <<"X", "x">>, <<"Y", "y">>,
    <<"Z", "z">> }

LowerChar(c) ==
  IF \E p \in UpperToLower : p[1] = c
  THEN (CHOOSE p \in UpperToLower : p[1] = c)[2]
  ELSE c

\* String.prototype.toLowerCase
toLowerCase(s) == [i \in 1..Len(s) |-> LowerChar(s[i])]

WhiteSpace == {" ", "\t", "\n"}

RECURSIVE trimStart(_)
trimStart(s) ==
  IF s # <<>> /\ Head(s) \in WhiteSpace THEN trimStart(Tail(s)) ELSE s

RECURSIVE trimEnd(_)
trimEnd(s) ==
  IF s # <<>> /\ s[Len(s)] \in WhiteSpace
  THEN trimEnd(SubSeq(s, 1, Len(s) - 1)) ELSE s

\* String.prototype.trim
trim(s) == trimEnd(trimStart(s))

BASE_GRID_CARBON_G_PER_KWH ==
  { <<<<"g", "l", "o", "b", "a", "l">>, 475>>,
    <<<<"u", "s">>, 400>>,
    <<<<"c", "a">>, 130>>,
    <<<<"j", "p">>, 470>>,
    <<<<"s", "g">>, 470>>,
    <<<<"a", "u">>, 600>>,
    <<<<"i", "n">>, 700>>,
    <<<<"b", "r">>, 80>> }

gridCarbonIntensity2025 ==
  { <<<<"e", "u">>, 210>>,
    <<<<"a", "t">>, 114>>,
    <<<<"b", "e">>, 150>>,
    <<<<"b", "a">>, 612>>,
    <<<<"b", "g">>, 275>>,
    <<<<"h", "r">>, 160>>,
    <<<<"c", "y">>, 488>>,
    <<<<"c", "z">>, 401>>,
    <<<<"d", "k">>, 114>>,
    <<<<"e", "e">>, 319>>,
    <<<<"f", "i">>, 57>>,
    <<<<"f", "r">>, 42>>,
    <<<<"d", "e">>, 332>>,
    <<<<"g", "r">>, 316>>,
    <<<<"h", "u">>, 162>>,
    <<<<"i", "e">>, 256>>,
    <<<<"x", "k">>, 947>>,
    <<<<"l", "v">>, 139>>,
    <<<<"l", "t">>, 140>>,
    <<<<"l", "u">>, 124>>,
    <<<<"m", "t">>, 472>>,
    <<<<"m", "e">>, 265>>,
    <<<<"m", "k">>, 531>>,
    <<<<"n", "l">>, 253>>,
    <<<<"n", "o">>, 29>>,
    <<<<"p", "l">>, 592>>,
    <<<<"p", "t">>, 128>>,
    <<<<"r", "o">>, 251>>,
    <<<<"r", "s">>, 696>>,
    <<<<"s", "k">>, 95>>,
    <<<<"s", "i">>, 183>>,
    <<<<"e", "s">>, 153>>,
    <<<<"s", "e">>, 35>>,
    <<<<"c", "h">>, 33>>,
    <<<<"t", "r">>, 475>>,
    <<<<"u", "k">>, 217>> }

REGION_ALIASES ==
  { <<<<"g", "b">>, <<"u", "k">>>>,
    <<<<"u", "n", "i", "t", "e", "d", " ", "k", "i", "n", "g", "d", "o", "m">>, <<"u", "k">>>>,
    <<<<"u", "s", "a">>, <<"u", "s">>>>,
    <<<<"u", "s", "-", "e", "a", "s", "t">>, <<"u", "s">>>>,
    <<<<"u", "s", "-", "w", "e", "s", "t">>, <<"u", "s">>>>,
    <<<<"u", "s", "-", "c", "e", "n", "t", "r", "a", "l">>, <<"u", "s">>>>,
    <<<<"e", "u", "-", "w", "e", "s", "t">>, <<"e", "u">>>>,
    <<<<"e", "u", "-", "c", "e", "n", "t", "r", "a", "l">>, <<"e", "u">>>>,
    <<<<"e", "u", "r", "o", "p", "e">>, <<"e", "u">>>>,
    <<<<"e", "u", " ", "(", "e", "m", "b", "e", "r", ")">>, <<"e", "u">>>>,
    <<<<"c", "z", "e", "c", "h", "i", "a">>, <<"c", "z">>>>,
    <<<<"s", "w", "i", "t", "z", "e", "r", "l", "a", "n", "d">>, <<"c", "h">>>>,
    <<<<"t", "u", "r", "k", "e", "y">>, <<"t", "r">>>>,
    <<<<"k", "o", "s", "o", "v", "o">>, <<"x", "k">>>>,
    <<<<"n", "o", "r", "t", "h", " ", "m", "a", "c", "e", "d", "o", "n", "i", "a">>, <<"m", "k">>>>,
    <<<<"m", "o", "n", "t", "e", "n", "e", "g", "r", "o">>, <<"m", "e">>>>,
    <<<<"s", "e", "r", "b", "i", "a">>, <<"r", "s">>>>,
    <<<<"b", "o", "s", "n", "i", "a", " ", "a", "n", "d", " ", "h", "e", "r", "z", "e", "g", "o", "v", "i", "n", "a">>, <<"b", "a">>>>,
    <<<<"i", "s">>, <<"e", "u">>>>,
    <<<<"c", "n">>, <<"g", "l", "o", "b", "a", "l">>>>,
    <<<<"k", "r">>, <<"g", "l", "o", "b", "a", "l">>>>,
    <<<<"m", "x">>, <<"g", "l", "o", "b", "a", "l">>>>,
    <<<<"z", "a">>, <<"g", "l", "o", "b", "a", "l">>>>,
    <<<<"a", "e">>, <<"g", "l", "o", "b", "a", "l">>>>,
    <<<<"s", "a">>, <<"g", "l", "o", "b", "a", "l">>>>,
    <<<<"n", "z">>, <<"g", "l", "o", "b", "a", "l">>>>,
    <<<<"i", "l">>, <<"g", "l", "o", "b", "a", "l">>>>,
    <<<<"a", "r">>, <<"g", "l", "o", "b", "a", "l">>>>,
    <<<<"c", "l">>, <<"g", "l", "o", "b", "a", "l">>>>,
    <<<<"c", "o">>, <<"g", "l", "o", "b", "a", "l">>>>,
    <<<<"p", "e">>, <<"g", "l", "o", "b", "a", "l">>>>,
    <<<<"i", "d">>, <<"g", "l", "o", "b", "a", "l">>>>,
    <<<<"t", "h">>, <<"g", "l", "o", "b", "a", "l">>>>,
    <<<<"v", "n">>, <<"g", "l", "o", "b", "a", "l">>>>,
    <<<<"p", "h">>, <<"g", "l", "o", "b", "a", "l">>>>,
    <<<<"m", "y">>, <<"g", "l", "o", "b", "a", "l">>>>,
    <<<<"t", "w">>, <<"g", "l", "o", "b", "a", "l">>>>,
    <<<<"h", "k">>, <<"g", "l", "o", "b", "a", "l">>>>,
    <<<<"p", "k">>, <<"g", "l", "o", "b", "a", "l">>>>,
    <<<<"b", "d">>, <<"g", "l", "o", "b", "a", "l">>>>,
    <<<<"n", "g">>, <<"g", "l", "o", "b", "a", "l">>>>,
    <<<<"e", "g">>, <<"g", "l", "o", "b", "a", "l">>>>,
    <<<<"k", "e">>, <<"g", "l", "o", "b", "a", "l">>>>,
    <<<<"m", "a">>, <<"g", "l", "o", "b", "a", "l">>>>,
    <<<<"t", "n">>, <<"g", "l", "o", "b", "a", "l">>>>,
    <<<<"d", "z">>, <<"g", "l", "o", "b", "a", "l">>>> }

\* { ...BASE_GRID_CARBON_G_PER_KWH, ...gridCarbonIntensity2025.values }:
\* the later spread wins on a shared key
DEFAULT_GRID_CARBON_G_PER_KWH ==
  gridCarbonIntensity2025 \cup
    { p \in BASE_GRID_CARBON_G_PER_KWH :
        ~ \E e \in gridCarbonIntensity2025 : e[1] = p[1] }

\* property names every plain object inherits from Object.prototype
ObjectPrototypeKeys ==
  { <<"c", "o", "n", "s", "t", "r", "u", "c", "t", "o", "r">>,
    <<"_", "_", "p", "r", "o", "t", "o", "_", "_">>,
    <<"t", "o", "S", "t", "r", "i", "n", "g">>,
    <<"v", "a", "l", "u", "e", "O", "f">> }

\* DEFAULT_GRID_CARBON_G_PER_KWH[key]: the own property, else the one the
\* object literal inherits from Object.prototype, else undefined
GridTableGet(key) ==
  IF \E p \in DEFAULT_GRID_CARBON_G_PER_KWH : p[1] = key
  THEN Whole((CHOOSE p \in DEFAULT_GRID_CARBON_G_PER_KWH : p[1] = key)[2])
  ELSE IF key \in ObjectPrototypeKeys THEN ObjVal ELSE Undefined

\* a region value: absent, or a string
NoRegion == [def |-> FALSE, s |-> <<>>]
Region(s) == [def |-> TRUE, s |-> s]

\* REGION_ALIASES[key]: the canonical code, or undefined (an inherited key
\* never gets here: normalizeRegion returns on the table lookup first)
AliasGet(key) ==
  IF \E p \in REGION_ALIASES : p[1] = key
  THEN Region((CHOOSE p \in REGION_ALIASES : p[1] = key)[2])
  ELSE NoRegion

normalizeRegion(region) ==
  IF ~ region.def \/ region.s = <<>> THEN NoRegion
  ELSE LET key == trim(toLowerCase(region.s))
       IN IF Truthy(GridTableGet(key)) THEN Region(key) ELSE AliasGet(key)

(***************************************************************************)
(* Grid Intensity Resolver                                                 *)
(***************************************************************************)
\* A caller-supplied gridIntensityResolver: absent, or a function whose
\* k-th invocation returns rets[k] (the last entry from then on).
NoResolver == [def |-> FALSE, rets |-> <<>>]
Resolver(rets) == [def |-> TRUE, rets |-> rets]

\* what an async gridIntensityResolver returns: a pending Promise (typeof
\* "object") that is fulfilled later with the number v
Promise(v) == [t |-> "promise", n |-> v.n, d |-> v.d]

\* the number a Promise is fulfilled with
Fulfilled(p) == Num(p.n, p.d)

ResolverReturn(resolver, k) ==
  resolver.rets[IF k < Len(resolver.rets) THEN k ELSE Len(resolver.rets)]

\* console.warn(`Unknown region "${input.region}", falling back ...`)
UnknownRegionWarning(region) ==
  <<"Unknown region ", region.s, ", falling back to global carbon intensity.">>

GlobalKey == <<"g", "l", "o", "b", "a", "l">>

\* resolveGridIntensity past the explicit override (index.ts 423-443), given
\* the normalized region, the invocation of the resolver (its arguments, or
\* none) and the value it returned
ResolveFromRegion(inp, normalizedRegion, calls, resolved, tableValue) ==
  IF calls # <<>> /\ IsNumber(resolved) /\ Gt(resolved, Zero)
  THEN [value |-> resolved, calls |-> calls, warns |-> <<>>]
  ELSE IF normalizedRegion.def /\ Truthy(tableValue)
  THEN [value |-> tableValue, calls |-> calls, warns |-> <<>>]
  ELSE [value |-> GridTableGet(GlobalKey), calls |-> calls,
        warns |-> IF inp.region.def /\ inp.region.s # <<>>
                  THEN <<UnknownRegionWarning(inp.region)>> ELSE <<>>]

ResolveWithRegion(inp, before, normalizedRegion) ==
  ResolveFromRegion(
    inp, normalizedRegion,
    IF inp.gridIntensityResolver.def
    THEN <<[region |-> normalizedRegion, timestamp |-> inp.timestamp]>>
    ELSE <<>>,
    IF inp.gridIntensityResolver.def
    THEN ResolverReturn(inp.gridIntensityResolver, before + 1)
    ELSE Undefined,
    IF normalizedRegion.def THEN GridTableGet(normalizedRegion.s) ELSE Undefined)

\* a resolveGridIntensity that lets the resolver and the region go first
resolveGridIntensity_RegionFirst(inp, before) ==
  ResolveWithRegion(inp, before, normalizeRegion(inp.region))

\* resolveGridIntensity, with its side effects: `calls` are the arguments
\* of the resolver invocations it made, `warns` its console.warn messages.
\* `before` is the number of resolver invocations made earlier.
resolveGridIntensity(inp, before) ==
  IF IsNumber(inp.gridCarbonIntensityGPerKwh)
     /\ Gt(inp.gridCarbonIntensityGPerKwh, Zero)
  THEN [value |-> inp.gridCarbonIntensityGPerKwh, calls |-> <<>>, warns |-> <<>>]
  ELSE ResolveWithRegion(inp, before, normalizeRegion(inp.region))

(***************************************************************************)
(* Validation helpers.  A thrown Error is its message, as a tuple of the   *)
(* message's parts; <<>> stands for "nothing thrown".                      *)
(***************************************************************************)
NoError == <<>>

\* a requirePositive that lets zero and the negatives through
requirePositive_FiniteOnly(name, value) ==
  IF ~ IsFinite(value)
  THEN <<name, " must be a positive number.">>
  ELSE NoError

\* requirePositive(name, value)
requirePositive(name, value) ==
  IF ~ IsFinite(value) \/ Le(value, Zero)
  THEN <<name, " must be a positive number.">>
  ELSE NoError

\* the first error thrown by a sequence of checks run in order
RECURSIVE FirstError(_)
FirstError(errs) ==
  IF errs = <<>> THEN NoError
  ELSE IF Head(errs) # NoError THEN Head(errs)
  ELSE FirstError(Tail(errs))

JoulesPerKwh == 3600000

toKwhFromJoules(joules) == Div(joules, Whole(JoulesPerKwh))

(***************************************************************************)
(* Time Model                                                              *)
(***************************************************************************)
TokenCategories == {"chat.completions", "text.completions", "ocr"}
AudioCategories == {"audio.transcription", "audio.translation", "audio.speech"}

\* a derivation that leaves the output tokens out
deriveProcessingTimeSeconds_InputOnly(usage, throughput) ==
  IF IsNumber(usage.processingTimeSeconds)
  THEN [err |-> requirePositive("processingTimeSeconds", usage.processingTimeSeconds),
        value |-> usage.processingTimeSeconds]
  ELSE IF usage.category \in TokenCategories
  THEN LET tps == throughput.tokensPerSecond
       IN [err |-> FirstError(<<requirePositive("inputTokens", usage.inputTokens),
                                requirePositive("outputTokens", usage.outputTokens),
                                requirePositive("throughput.tokensPerSecond",
                                                Coalesce(tps, NaN))>>),
           value |-> Div(usage.inputTokens, tps)]
  ELSE IF usage.category = "embeddings"
  THEN LET tps == throughput.tokensPerSecond
       IN [err |-> FirstError(<<requirePositive("inputTokens", usage.inputTokens),
                                requirePositive("throughput.tokensPerSecond",
                                                Coalesce(tps, NaN))>>),
           value |-> Div(usage.inputTokens, tps)]
  ELSE IF usage.category \in AudioCategories
  THEN LET aps == throughput.audioSecondsPerSecond
       IN [err |-> FirstError(<<requirePositive("audioSeconds", usage.audioSeconds),
                                requirePositive("throughput.audioSecondsPerSecond",
                                                Coalesce(aps, NaN))>>),
           value |-> Div(usage.audioSeconds, aps)]
  ELSE IF usage.category = "image.generation"
  THEN LET pps == throughput.pixelsPerSecond
           totalPixels == Mul(Mul(usage.width, usage.height), usage.images)
       IN [err |-> FirstError(<<requirePositive("width", usage.width),
                                requirePositive("height", usage.height),
                                requirePositive("images", usage.images),
                                requirePositive("throughput.pixelsPerSecond",
                                                Coalesce(pps, NaN))>>),
           value |-> Div(totalPixels, pps)]
  ELSE [err |-> <<"Unsupported usage category.">>, value |-> Undefined]

\* a derivation that reads the token rate for audio
deriveProcessingTimeSeconds_TokenRate(usage, throughput) ==
  IF IsNumber(usage.processingTimeSeconds)
  THEN [err |-> requirePositive("processingTimeSeconds", usage.processingTimeSeconds),
        value |-> usage.processingTimeSeconds]
  ELSE IF usage.category \in TokenCategories
  THEN LET tps == throughput.tokensPerSecond
       IN [err |-> FirstError(<<requirePositive("inputTokens", usage.inputTokens),
                                requirePositive("outputTokens", usage.outputTokens),
                                requirePositive("throughput.tokensPerSecond",
                                                Coalesce(tps, NaN))>>),
           value |-> Div(Add(usage.inputTokens, usage.outputTokens), tps)]
  ELSE IF usage.category = "embeddings"
  THEN LET tps == throughput.tokensPerSecond
       IN [err |-> FirstError(<<requirePositive("inputTokens", usage.inputTokens),
                                requirePositive("throughput.tokensPerSecond",
                                                Coalesce(tps, NaN))>>),
           value |-> Div(usage.inputTokens, tps)]
  ELSE IF usage.category \in AudioCategories
  THEN LET aps == throughput.tokensPerSecond
       IN [err |-> FirstError(<<requirePositive("audioSeconds", usage.audioSeconds),
                                requirePositive("throughput.audioSecondsPerSecond",
                                                Coalesce(aps, NaN))>>),
           value |-> Div(usage.audioSeconds, aps)]
  ELSE IF usage.category = "image.generation"
  THEN LET pps == throughput.pixelsPerSecond
           totalPixels == Mul(Mul(usage.width, usage.height), usage.images)
       IN [err |-> FirstError(<<requirePositive("width", usage.width),
                                requirePositive("height", usage.height),
                                requirePositive("images", usage.images),
                                requirePositive("throughput.pixelsPerSecond",
                                                Coalesce(pps, NaN))>>),
           value |-> Div(totalPixels, pps)]
  ELSE [err |-> <<"Unsupported usage category.">>, value |-> Undefined]

\* deriveProcessingTimeSeconds(usage, throughput): [err, value]
deriveProcessingTimeSeconds(usage, throughput) ==
  IF IsNumber(usage.processingTimeSeconds)
  THEN [err |-> requirePositive("processingTimeSeconds", usage.processingTimeSeconds),
        value |-> usage.processingTimeSeconds]
  ELSE IF usage.category \in TokenCategories
  THEN LET tps == throughput.tokensPerSecond
       IN [err |-> FirstError(<<requirePositive("inputTokens", usage.inputTokens),
                                requirePositive("outputTokens", usage.outputTokens),
                                requirePositive("throughput.tokensPerSecond",
                                                Coalesce(tps, NaN))>>),
           value |-> Div(Add(usage.inputTokens, usage.outputTokens), tps)]
  ELSE IF usage.category = "embeddings"
  THEN LET tps == throughput.tokensPerSecond
       IN [err |-> FirstError(<<requirePositive("inputTokens", usage.inputTokens),
                                requirePositive("throughput.tokensPerSecond",
                                                Coalesce(tps, NaN))>>),
           value |-> Div(usage.inputTokens, tps)]
  ELSE IF usage.category \in AudioCategories
  THEN LET aps == throughput.audioSecondsPerSecond
       IN [err |-> FirstError(<<requirePositive("audioSeconds", usage.audioSeconds),
                                requirePositive("throughput.audioSecondsPerSecond",
                                                Coalesce(aps, NaN))>>),
           value |-> Div(usage.audioSeconds, aps)]
  ELSE IF usage.category = "image.generation"
  THEN LET pps == throughput.pixelsPerSecond
           totalPixels == Mul(Mul(usage.width, usage.height), usage.images)
       IN [err |-> FirstError(<<requirePositive("width", usage.width),
                                requirePositive("height", usage.height),
                                requirePositive("images", usage.images),
                                requirePositive("throughput.pixelsPerSecond",
                                                Coalesce(pps, NaN))>>),
           value |-> Div(totalPixels, pps)]
  ELSE [err |-> <<"Unsupported usage category.">>, value |-> Undefined]

\* resolveEnergyKwh: the override, or undefined for the source's null
resolveEnergyKwh(energy) ==
  IF Truthy(energy.energyKwh) /\ Gt(energy.energyKwh, Zero)
  THEN energy.energyKwh
  ELSE IF Truthy(energy.energyJoules) /\ Gt(energy.energyJoules, Zero)
  THEN toKwhFromJoules(energy.energyJoules)
  ELSE Undefined

(***************************************************************************)
(* Power Model                                                             *)
(***************************************************************************)
\* a clamp that forgets the floor
clamp_NoFloor(min, value, max) == MathMin(value, max)

\* clamp(min, value, max)
clamp(min, value, max) == MathMax(min, MathMin(value, max))

DEFAULT_OVERHEAD == Whole(1)
DEFAULT_PUE == Whole(1)
OverheadFloor == Num(1, 10)
OverheadCeiling == Whole(10)
PueFloor == Whole(1)
PueCeiling == Whole(3)

\* computeEffectivePowerW past the defaults (index.ts 526-548)
EffectivePower(inp, cpuPowerW, networkPowerW, basePowerW, overheadFactor, pue) ==
  [err |-> FirstError(<<requirePositive("gpuPowerW", inp.gpuPowerW),
                        IF Truthy(cpuPowerW)
                        THEN requirePositive("cpuPowerW", cpuPowerW) ELSE NoError,
                        IF Truthy(networkPowerW)
                        THEN requirePositive("networkPowerW", networkPowerW)
                        ELSE NoError>>),
   effectivePowerW |-> Mul(Mul(basePowerW, overheadFactor), pue),
   notes |-> <<Note("Base power: ", ToFixed2(basePowerW), "W"),
               Note("Overhead factor: ", ToFixed2(overheadFactor), ""),
               Note("PUE: ", ToFixed2(pue), "")>>]

computeEffectivePowerW(inp) ==
  EffectivePower(
    inp,
    Coalesce(inp.cpuPowerW, Zero),
    Coalesce(inp.networkPowerW, Zero),
    Add(Add(inp.gpuPowerW, Coalesce(inp.cpuPowerW, Zero)),
        Coalesce(inp.networkPowerW, Zero)),
    clamp(OverheadFloor,
          Coalesce(inp.efficiency.overheadFactor, DEFAULT_OVERHEAD),
          OverheadCeiling),
    clamp(PueFloor, Coalesce(inp.efficiency.pue, DEFAULT_PUE), PueCeiling))

\* applyEfficiencyToTime
applyEfficiencyToTime(processingTimeSeconds, efficiency) ==
  IF ~ Truthy(efficiency.efficiencyFactor)
  THEN [err |-> NoError, value |-> processingTimeSeconds]
  ELSE [err |-> requirePositive("efficiency.efficiencyFactor",
                                efficiency.efficiencyFactor),
        value |-> Div(processingTimeSeconds, efficiency.efficiencyFactor)]

\* applyBatchSize
applyBatchSize(energyKwh, efficiency) ==
  IF ~ Truthy(efficiency.batchSize)
  THEN [err |-> NoError, value |-> energyKwh]
  ELSE [err |-> requirePositive("efficiency.batchSize", efficiency.batchSize),
        value |-> Div(energyKwh, efficiency.batchSize)]

(***************************************************************************)
(* Estimator                                                               *)
(***************************************************************************)
SecondsPerHour == 3600
WattsPerKilowatt == 1000

NoGrid == [calls |-> <<>>, warns |-> <<>>]

Thrown(error, grid) ==
  [ok |-> FALSE, error |-> error, category |-> "",
   energyKwh |-> Undefined, co2Grams |-> Undefined,
   gridCarbonIntensityGPerKwh |-> Undefined, effectivePowerW |-> Undefined,
   processingTimeSeconds |-> Undefined, notes |-> <<>>,
   calls |-> grid.calls, warns |-> grid.warns]

\* the power/time branch of estimateImpact (index.ts 602-621), given the
\* time before and after the efficiency adjustment
PowerTimePath(raw, adjusted, effectivePowerW) ==
  [err |-> FirstError(<<raw.err, adjusted.err>>),
   processingTimeSeconds |-> adjusted.value,
   energyKwh |-> Div(Div(Mul(effectivePowerW, adjusted.value),
                         Whole(SecondsPerHour)), Whole(WattsPerKilowatt)),
   notes |-> <<>>]

\* a time source that asks for the top-level processingTimeSeconds
RawTime_TimeOnly(inp) ==
  IF IsNumber(inp.processingTimeSeconds)
  THEN [err |-> requirePositive("processingTimeSeconds", inp.processingTimeSeconds),
        value |-> inp.processingTimeSeconds]
  ELSE [err |-> <<"Either processingTimeSeconds, usage, or energy must be provided.">>,
        value |-> Undefined]

\* a time source that looks at the usage before the top-level
\* processingTimeSeconds
RawTime_UsageFirst(inp) ==
  IF inp.usage.def
  THEN deriveProcessingTimeSeconds(inp.usage, inp.throughput)
  ELSE IF IsNumber(inp.processingTimeSeconds)
  THEN [err |-> requirePositive("processingTimeSeconds", inp.processingTimeSeconds),
        value |-> inp.processingTimeSeconds]
  ELSE [err |-> <<"Either processingTimeSeconds, usage, or energy must be provided.">>,
        value |-> Undefined]

RawTime(inp) ==
  IF IsNumber(inp.processingTimeSeconds)
  THEN [err |-> requirePositive("processingTimeSeconds", inp.processingTimeSeconds),
        value |-> inp.processingTimeSeconds]
  ELSE IF inp.usage.def
  THEN deriveProcessingTimeSeconds(inp.usage, inp.throughput)
  ELSE [err |-> <<"Either processingTimeSeconds, usage, or energy must be provided.">>,
        value |-> Undefined]

\* an override path that derives the time it reports from the usage
TimeAndEnergy_DerivesTime(inp, energyOverride, effectivePowerW) ==
  IF energyOverride.t # "undef"
  THEN IF IsNumber(inp.processingTimeSeconds) \/ inp.usage.def
       THEN [err |-> RawTime(inp).err,
             processingTimeSeconds |-> RawTime(inp).value,
             energyKwh |-> energyOverride,
             notes |-> <<TextNote("Energy override provided.")>>]
       ELSE [err |-> NoError, processingTimeSeconds |-> Zero,
             energyKwh |-> energyOverride,
             notes |-> <<TextNote("Energy override provided."),
                         TextNote("Processing time not provided with energy.")>>]
  ELSE PowerTimePath(RawTime(inp),
                     applyEfficiencyToTime(RawTime(inp).value, inp.efficiency),
                     effectivePowerW)

\* the time/energy branch of estimateImpact (index.ts 583-622):
\* [err, processingTimeSeconds, energyKwh, notes]
TimeAndEnergy(inp, energyOverride, effectivePowerW) ==
  IF energyOverride.t # "undef"
  THEN IF IsNumber(inp.processingTimeSeconds)
       THEN [err |-> requirePositive("processingTimeSeconds", inp.processingTimeSeconds),
             processingTimeSeconds |-> inp.processingTimeSeconds,
             energyKwh |-> energyOverride,
             notes |-> <<TextNote("Energy override provided."),
                         TextNote("Processing time provided alongside energy.")>>]
       ELSE IF inp.usage.def /\ Truthy(inp.usage.processingTimeSeconds)
       THEN [err |-> requirePositive("processingTimeSeconds",
                                     inp.usage.processingTimeSeconds),
             processingTimeSeconds |-> inp.usage.processingTimeSeconds,
             energyKwh |-> energyOverride,
             notes |-> <<TextNote("Energy override provided."),
                         TextNote("Processing time provided in usage alongside energy.")>>]
       ELSE [err |-> NoError, processingTimeSeconds |-> Zero,
             energyKwh |-> energyOverride,
             notes |-> <<TextNote("Energy override provided."),
                         TextNote("Processing time not provided with energy.")>>]
  ELSE PowerTimePath(RawTime(inp),
                     applyEfficiencyToTime(RawTime(inp).value, inp.efficiency),
                     effectivePowerW)

\* the result object estimateImpact returns (index.ts 624-644), or the
\* first error thrown on the way
Assemble(inp, grid, power, te, batched) ==
  IF FirstError(<<power.err, te.err, batched.err>>) # NoError
  THEN Thrown(FirstError(<<power.err, te.err, batched.err>>), grid)
  ELSE [ok |-> TRUE, error |-> NoError,
        category |-> IF inp.usage.def THEN inp.usage.category ELSE "",
        energyKwh |-> batched.value,
        co2Grams |-> Mul(batched.value, grid.value),
        gridCarbonIntensityGPerKwh |-> grid.value,
        effectivePowerW |-> power.effectivePowerW,
        processingTimeSeconds |-> te.processingTimeSeconds,
        notes |-> power.notes \o te.notes
                  \o <<Note("Grid intensity: ", grid.value, " gCO2/kWh")>>
                  \o (IF inp.efficiency.precision # ""
                      THEN <<Note("Precision: ", Undefined, inp.efficiency.precision)>>
                      ELSE <<>>)
                  \o (IF inp.efficiency.quantization # ""
                      THEN <<Note("Quantization: ", Undefined, inp.efficiency.quantization)>>
                      ELSE <<>>),
        calls |-> grid.calls, warns |-> grid.warns]

WithBatch(inp, grid, power, te) ==
  Assemble(inp, grid, power, te, applyBatchSize(te.energyKwh, inp.efficiency))

WithPower(inp, grid, power) ==
  WithBatch(inp, grid, power,
            TimeAndEnergy(inp, resolveEnergyKwh(inp.energy), power.effectivePowerW))

\* estimateImpact(input); `before` = resolver invocations made earlier
estimateImpactAt(inp, before) ==
  WithPower(inp, resolveGridIntensity(inp, before), computeEffectivePowerW(inp))

estimateImpact(inp) == estimateImpactAt(inp, 0)

(***************************************************************************)
(* Minimal entry point                                                     *)
(***************************************************************************)
NoUsage ==
  [def |-> FALSE, category |-> "", inputTokens |-> Undefined,
   outputTokens |-> Undefined, audioSeconds |-> Undefined, width |-> Undefined,
   height |-> Undefined, images |-> Undefined, processingTimeSeconds |-> Undefined]

\* an absent throughput / energy / efficiency object reads like one whose
\* fields are all undefined (every access is `obj?.field`)
NoThroughput ==
  [tokensPerSecond |-> Undefined, audioSecondsPerSecond |-> Undefined,
   pixelsPerSecond |-> Undefined]

NoEnergy == [energyKwh |-> Undefined, energyJoules |-> Undefined]

NoEfficiency ==
  [pue |-> Undefined, overheadFactor |-> Undefined, efficiencyFactor |-> Undefined,
   batchSize |-> Undefined, precision |-> "", quantization |-> ""]

\* a forwarding that passes the whole object on
MinimalForward_Everything(m) == m

\* the object literal estimateImpactMinimal passes on
MinimalForward(m) ==
  [gpuPowerW |-> m.gpuPowerW,
   cpuPowerW |-> Undefined,
   networkPowerW |-> Undefined,
   region |-> m.region,
   gridCarbonIntensityGPerKwh |-> m.gridCarbonIntensityGPerKwh,
   timestamp |-> m.timestamp,
   gridIntensityResolver |-> m.gridIntensityResolver,
   processingTimeSeconds |-> m.processingTimeSeconds,
   usage |-> NoUsage,
   throughput |-> NoThroughput,
   energy |-> m.energy,
   efficiency |-> m.efficiency]

estimateImpactMinimal(m) == estimateImpact(MinimalForward(m))

(***************************************************************************)
(* Range Evaluator                                                         *)
(***************************************************************************)
NoRange == [def |-> FALSE, min |-> Undefined, max |-> Undefined]
Range(lo, hi) == [def |-> TRUE, min |-> lo, max |-> hi]

NoRanges ==
  [gpuPowerW |-> NoRange, pue |-> NoRange, overheadFactor |-> NoRange,
   efficiencyFactor |-> NoRange, tokensPerSecond |-> NoRange,
   audioSecondsPerSecond |-> NoRange, pixelsPerSecond |-> NoRange]

\* validateRange(name, range)
validateRange(name, range) ==
  IF ~ range.def THEN NoError
  ELSE FirstError(<<requirePositive(name \o ".min", range.min),
                    requirePositive(name \o ".max", range.max),
                    IF Lt(range.max, range.min)
                    THEN <<name \o ".max", " must be >= " \o name \o ".min.">>
                    ELSE NoError>>)

\* the validations estimateImpactRange starts with (index.ts 761-767)
validateRanges(rgs) ==
  FirstError(<<validateRange("gpuPowerW", rgs.gpuPowerW),
               validateRange("pue", rgs.pue),
               validateRange("overheadFactor", rgs.overheadFactor),
               validateRange("efficiencyFactor", rgs.efficiencyFactor),
               validateRange("tokensPerSecond", rgs.tokensPerSecond),
               validateRange("audioSecondsPerSecond", rgs.audioSecondsPerSecond),
               validateRange("pixelsPerSecond", rgs.pixelsPerSecond)>>)

\* pickRangeValue(value, range, pick)
pickRangeValue(value, range, pick) ==
  IF ~ range.def THEN value
  ELSE IF pick = "min" THEN range.min ELSE range.max

\* buildInputWithRanges(input, ranges, pick)
buildInputWithRanges(inp, rgs, pick) ==
  [inp EXCEPT
     !.gpuPowerW = pickRangeValue(inp.gpuPowerW, rgs.gpuPowerW, pick),
     !.throughput =
        [tokensPerSecond |->
           pickRangeValue(inp.throughput.tokensPerSecond, rgs.tokensPerSecond, pick),
         audioSecondsPerSecond |->
           pickRangeValue(inp.throughput.audioSecondsPerSecond,
                          rgs.audioSecondsPerSecond, pick),
         pixelsPerSecond |->
           pickRangeValue(inp.throughput.pixelsPerSecond, rgs.pixelsPerSecond, pick)],
     !.efficiency =
        [inp.efficiency EXCEPT
           !.pue = pickRangeValue(inp.efficiency.pue, rgs.pue, pick),
           !.overheadFactor =
              pickRangeValue(inp.efficiency.overheadFactor, rgs.overheadFactor, pick),
           !.efficiencyFactor =
              pickRangeValue(inp.efficiency.efficiencyFactor,
                             rgs.efficiencyFactor, pick)]]

NoEnvelope ==
  [energyKwhMin |-> Undefined, energyKwhMax |-> Undefined,
   co2GramsMin |-> Undefined, co2GramsMax |-> Undefined]

\* the outcome of estimateImpactRange: the base result (or the thrown
\* error), the envelope, the number of Estimator evaluations started, and
\* the side effects of all of them in order
RangeOutcome(base, env, evals, calls, warns) ==
  [base |-> base, envelope |-> env, evaluations |-> evals,
   calls |-> calls, warns |-> warns]

\* index.ts 787-796, given the three evaluations
RangeFromExtremes(base, low, high) ==
  IF ~ low.ok
  THEN RangeOutcome(Thrown(low.error, NoGrid), NoEnvelope, 2,
                    base.calls \o low.calls, base.warns \o low.warns)
  ELSE IF ~ high.ok
  THEN RangeOutcome(Thrown(high.error, NoGrid), NoEnvelope, 3,
                    base.calls \o low.calls \o high.calls,
                    base.warns \o low.warns \o high.warns)
  ELSE RangeOutcome(base,
                    [energyKwhMin |-> MathMin(low.energyKwh, high.energyKwh),
                     energyKwhMax |-> MathMax(low.energyKwh, high.energyKwh),
                     co2GramsMin |-> MathMin(low.co2Grams, high.co2Grams),
                     co2GramsMax |-> MathMax(low.co2Grams, high.co2Grams)],
                    3,
                    base.calls \o low.calls \o high.calls,
                    base.warns \o low.warns \o high.warns)

\* the low evaluation, then the high one; the resolver has been invoked
\* Len(base.calls) times before the low one
RangeLowHigh(inp, rgs, base, low) ==
  RangeFromExtremes(
    base, low,
    estimateImpactAt(buildInputWithRanges(inp, rgs, "max"),
                     Len(base.calls) + Len(low.calls)))

\* a range evaluation that never looks for an energy override
RangeFromBase_AlwaysExtremes(inp, rgs, base) ==
  IF ~ base.ok
  THEN RangeOutcome(base, NoEnvelope, 1, base.calls, base.warns)
  ELSE RangeLowHigh(inp, rgs, base,
                    estimateImpactAt(buildInputWithRanges(inp, rgs, "min"),
                                     Len(base.calls)))

\* index.ts 769-796, given the base evaluation
RangeFromBase(inp, rgs, base) ==
  IF ~ base.ok
  THEN RangeOutcome(base, NoEnvelope, 1, base.calls, base.warns)
  ELSE IF Truthy(inp.energy.energyKwh) \/ Truthy(inp.energy.energyJoules)
  THEN RangeOutcome(base,
                    [energyKwhMin |-> base.energyKwh,
                     energyKwhMax |-> base.energyKwh,
                     co2GramsMin |-> base.co2Grams,
                     co2GramsMax |-> base.co2Grams],
                    1, base.calls, base.warns)
  ELSE RangeLowHigh(inp, rgs, base,
                    estimateImpactAt(buildInputWithRanges(inp, rgs, "min"),
                                     Len(base.calls)))

\* a range evaluator that validates the ranges after the base evaluation
estimateImpactRange_ValidatesLate(inp, rgs) ==
  IF validateRanges(rgs) # NoError
  THEN RangeOutcome(Thrown(IF estimateImpactAt(inp, 0).ok
                           THEN validateRanges(rgs)
                           ELSE estimateImpactAt(inp, 0).error, NoGrid),
                    NoEnvelope, 1,
                    estimateImpactAt(inp, 0).calls, estimateImpactAt(inp, 0).warns)
  ELSE RangeFromBase(inp, rgs, estimateImpactAt(inp, 0))

\* estimateImpactRange(input, ranges)
estimateImpactRange(inp, rgs) ==
  IF validateRanges(rgs) # NoError
  THEN RangeOutcome(Thrown(validateRanges(rgs), NoGrid), NoEnvelope, 0, <<>>, <<>>)
  ELSE RangeFromBase(inp, rgs, estimateImpactAt(inp, 0))

(***************************************************************************)
(* Aggregator.  `acc.energyKwh + result.energyKwh` is an addition of IEEE  *)
(* 754 doubles, which rounds.  The numbers summed here are whole multiples *)
(* of a unit u (a power of two), written [big, units] for                  *)
(* (big x 2^53 + units) x u with units far below 2^53: with big = 0 every  *)
(* such number is a double, with big = 1 only the even ones are (the       *)
(* doubles of [2^53 u, 2^54 u) are 2 u apart).                             *)
(***************************************************************************)
Double(big, units) == [big |-> big, units |-> units]

\* distance, in units, between neighbouring doubles of the binade that
\* big x 2^53 u lies in: 1 below 2^53 u, 2 up to 2^54 u, 4 up to 2^55 u, ...
RECURSIVE Spacing(_)
Spacing(big) == IF big = 0 THEN 1 ELSE 2 * Spacing(big \div 2)

\* round-to-nearest, ties to the even significand, of units to a multiple
\* of step
RoundToDouble(units, step) ==
  IF 2 * (units % step) < step THEN (units \div step) * step
  ELSE IF 2 * (units % step) > step THEN ((units \div step) + 1) * step
  ELSE IF (units \div step) % 2 = 0 THEN (units \div step) * step
  ELSE ((units \div step) + 1) * step

\* a + b on doubles: the exact sum, rounded once
DoubleAdd(a, b) ==
  Double(a.big + b.big,
         RoundToDouble(a.units + b.units, Spacing(a.big + b.big)))

NoAggregate == [count |-> 0, energyKwh |-> Double(0, 0), co2Grams |-> Double(0, 0)]

\* results.reduce(..., { count: 0, energyKwh: 0, co2Grams: 0 })
RECURSIVE Reduce(_, _)
Reduce(acc, rest) ==
  IF rest = <<>> THEN acc
  ELSE Reduce([count |-> acc.count + 1,
               energyKwh |-> DoubleAdd(acc.energyKwh, Head(rest).energyKwh),
               co2Grams |-> DoubleAdd(acc.co2Grams, Head(rest).co2Grams)],
              Tail(rest))

\* aggregateImpacts(results)
aggregateImpacts(list) ==
  Reduce([count |-> 0, energyKwh |-> Double(0, 0), co2Grams |-> Double(0, 0)],
         list)

\* the fields of an ImpactResult the Aggregator reads
Result(energy, co2) == [energyKwh |-> energy, co2Grams |-> co2]

\* results of small and of large requests: energies and emissions of a few
\* units, and of 2^53 units
ResultValues ==
  { Result(Double(0, 0), Double(0, 0)),
    Result(Double(0, 1), Double(0, 3)),
    Result(Double(0, 2), Double(0, 5)),
    Result(Double(1, 0), Double(0, 1)),
    Result(Double(0, 3), Double(1, 0)) }

(***************************************************************************)
(* Usage builders (index.ts 802-831)                                       *)
(***************************************************************************)
TokenUsage(category, inputTokens, outputTokens) ==
  [NoUsage EXCEPT !.def = TRUE, !.category = category,
                  !.inputTokens = inputTokens, !.outputTokens = outputTokens]

EmbeddingsUsage(inputTokens) ==
  [NoUsage EXCEPT !.def = TRUE, !.category = "embeddings",
                  !.inputTokens = inputTokens]

AudioUsage(category, audioSeconds) ==
  [NoUsage EXCEPT !.def = TRUE, !.category = category,
                  !.audioSeconds = audioSeconds]

\* usage.imageGeneration(width, height, images = 1)
ImageGenerationUsage(width, height, images) ==
  [NoUsage EXCEPT !.def = TRUE, !.category = "image.generation",
                  !.width = width, !.height = height,
                  !.images = IF images = Undefined THEN Whole(1) ELSE images]

(***************************************************************************)
(* Inputs of the calls                                                     *)
(***************************************************************************)
\* longest fuzzed region string
MaxRegionLen == 3
\* number of distinct valid values tried for a numeric field
MaxUnits == 2

\* longest list handed to the Aggregator
MaxResults == 3

Ladder(step) == { Whole(k * step) : k \in 1..MaxUnits }

\* values requirePositive must reject
NotPositive == {NaN, Infinity, Zero, Whole(-5)}

\* an ImpactInputs value with only gpuPowerW and processingTimeSeconds
BaseInput ==
  [gpuPowerW |-> Whole(350),
   cpuPowerW |-> Undefined,
   networkPowerW |-> Undefined,
   region |-> NoRegion,
   gridCarbonIntensityGPerKwh |-> Undefined,
   timestamp |-> Undefined,
   gridIntensityResolver |-> NoResolver,
   processingTimeSeconds |-> Whole(10),
   usage |-> NoUsage,
   throughput |-> NoThroughput,
   energy |-> NoEnergy,
   efficiency |-> NoEfficiency]

RegionAlphabet == {"u", "k", "U", "g", "b", " "}

RECURSIVE StringsUpTo(_)
StringsUpTo(n) ==
  IF n = 0 THEN {<<>>}
  ELSE StringsUpTo(n - 1)
         \cup { Append(s, c) : s \in StringsUpTo(n - 1), c \in RegionAlphabet }

NamedRegions ==
  { <<"G", "B">>, <<" ", "g", "b", " ">>, <<"u", "k">>,
    <<"U", "n", "i", "t", "e", "d", " ", "K", "i", "n", "g", "d", "o", "m">>,
    <<"u", "n", "i", "t", "e", "d", "k", "i", "n", "g", "d", "o", "m">>,
    <<"a", "t", "l", "a", "n", "t", "i", "s">>,
    <<"\t", "E", "U", " ", "(", "E", "m", "b", "e", "r", ")", "\n">>,
    <<"u", "s", "-", "e", "a", "s", "t">>, <<"u", "s", "-">>,
    <<"c", "n">>, <<"N", "O">>, <<"e", "u">>,
    <<"c", "o", "n", "s", "t", "r", "u", "c", "t", "o", "r">>,
    <<"_", "_", "p", "r", "o", "t", "o", "_", "_">>,
    <<"t", "o", "S", "t", "r", "i", "n", "g">> }

RegionStrings == StringsUpTo(MaxRegionLen) \cup NamedRegions

RegionValues == {NoRegion} \cup { Region(s) : s \in RegionStrings }

FewRegions ==
  { NoRegion, Region(<<>>), Region(<<"u", "k">>), Region(<<"G", "B">>),
    Region(<<"a", "t", "l", "a", "n", "t", "i", "s">>),
    Region(<<"c", "o", "n", "s", "t", "r", "u", "c", "t", "o", "r">>) }

ExplicitIntensities ==
  {Undefined, NaN, Infinity, Zero, Whole(-5), Num(1, 2)} \cup Ladder(105)

ResolverReturns ==
  {Undefined, StrVal, ObjVal, NaN, Infinity, Zero, Whole(-5), Num(1, 2)}
    \cup Ladder(55)

Resolvers == {NoResolver} \cup { Resolver(<<v>>) : v \in ResolverReturns }

Timestamps == {Undefined, Whole(1767225600)}

\* inputs that exercise region normalisation
RegionInputs ==
  { [BaseInput EXCEPT !.region = r, !.gridCarbonIntensityGPerKwh = g,
                      !.gridIntensityResolver = f] :
      r \in RegionValues, g \in {Undefined, Whole(210)},
      f \in {NoResolver, Resolver(<<Whole(55)>>), Resolver(<<Zero>>)} }

\* inputs that exercise the precedence of the grid intensity sources
PrecedenceInputs ==
  { [BaseInput EXCEPT !.region = r, !.gridCarbonIntensityGPerKwh = g,
                      !.gridIntensityResolver = f, !.timestamp = t] :
      r \in FewRegions, g \in ExplicitIntensities, f \in Resolvers,
      t \in Timestamps }

\* the families of inputs are kept apart, as a sequence of sets
GridInputs == <<RegionInputs, PrecedenceInputs>>

\* inputs whose resolver is synchronous or async, as in the documentation's
\* API-integration example
AsyncInputs ==
  { [BaseInput EXCEPT !.region = r, !.gridCarbonIntensityGPerKwh = g,
                      !.gridIntensityResolver = f, !.timestamp = t,
                      !.processingTimeSeconds = pt[1], !.usage = pt[2],
                      !.throughput = pt[3]] :
      r \in {NoRegion, Region(<<"u", "k">>), Region(<<"G", "B">>),
              Region(<<"a", "t", "l", "a", "n", "t", "i", "s">>)},
      g \in {Undefined, Zero, Whole(210)},
      f \in {NoResolver, Resolver(<<Whole(55)>>)}
              \cup { Resolver(<<Promise(v)>>) : v \in Ladder(55) },
      t \in Timestamps,
      pt \in { <<Whole(10), NoUsage, NoThroughput>>,
               <<Undefined, TokenUsage("chat.completions", Whole(1000), Whole(200)),
                 [NoThroughput EXCEPT !.tokensPerSecond = Whole(100)]>> } }

GpuPowers == NotPositive \cup Ladder(100)

OverheadFactors ==
  {Undefined, NaN, Whole(-5), Num(1, 100), Num(1, 10), Num(1, 2), Whole(1),
   Whole(10), Whole(20)}

PueValues ==
  {Undefined, NaN, Num(1, 2), Whole(1), Num(3, 2), Whole(3), Whole(5)}

\* inputs that exercise the Power Model
PowerModelInputs ==
  { [BaseInput EXCEPT !.gpuPowerW = g, !.cpuPowerW = c, !.networkPowerW = n,
                      !.efficiency.overheadFactor = o, !.efficiency.pue = p] :
      g \in GpuPowers,
      c \in {Undefined, Whole(50)} \cup NotPositive,
      n \in {Undefined, Zero, Whole(-5), NaN, Whole(20)},
      o \in OverheadFactors, p \in PueValues }

EnergyOverrides ==
  { NoEnergy,
    [NoEnergy EXCEPT !.energyKwh = Num(1, 1000)],
    [NoEnergy EXCEPT !.energyJoules = Whole(7200)] }

\* gpuPowerW next to the other sources of energy and time
PowerOverrideInputs ==
  { [BaseInput EXCEPT !.gpuPowerW = g, !.cpuPowerW = c, !.energy = e,
                      !.processingTimeSeconds = t, !.region = r] :
      g \in GpuPowers, c \in {Undefined, Whole(50)}, e \in EnergyOverrides,
      t \in {Undefined, Whole(10)},
      r \in {NoRegion, Region(<<"a", "t", "l", "a", "n", "t", "i", "s">>)} }

PowerInputs == <<PowerModelInputs, PowerOverrideInputs>>

\* workload metrics and throughput rates, valid and not
Metrics == {Undefined} \cup NotPositive \cup Ladder(100)
Rates == {Undefined} \cup NotPositive \cup Ladder(50)

UnknownCategory == "video.generation"

Throughput(tps, aps, pps) ==
  [tokensPerSecond |-> tps, audioSecondsPerSecond |-> aps, pixelsPerSecond |-> pps]

\* inputs whose time is derived from the usage metrics
TokenInputs ==
  { [BaseInput EXCEPT !.processingTimeSeconds = Undefined,
                      !.usage = TokenUsage(c, i, o),
                      !.throughput = Throughput(r, a, Undefined)] :
      c \in TokenCategories, i \in Metrics, o \in Metrics, r \in Rates,
      a \in {Undefined, Whole(2)} }

EmbeddingsInputs ==
  { [BaseInput EXCEPT !.processingTimeSeconds = Undefined,
                      !.usage = [EmbeddingsUsage(i) EXCEPT !.outputTokens = o],
                      !.throughput = Throughput(r, Undefined, p)] :
      i \in Metrics, o \in {Undefined, Zero}, r \in Rates,
      p \in {Undefined, Whole(4096)} }

AudioInputs ==
  { [BaseInput EXCEPT !.processingTimeSeconds = Undefined,
                      !.usage = AudioUsage(c, s),
                      !.throughput = Throughput(r, a, Undefined)] :
      c \in AudioCategories, s \in Metrics, a \in Rates,
      r \in {Undefined, Whole(100), Zero} }

ImageInputs ==
  { [BaseInput EXCEPT !.processingTimeSeconds = Undefined,
                      !.usage = [ImageGenerationUsage(w, h, Undefined)
                                   EXCEPT !.images = n],
                      !.throughput = Throughput(r, Undefined, p)] :
      w \in Metrics, h \in {Whole(64), Zero, NaN},
      n \in {Whole(1), Whole(2), Whole(-5), Undefined}, p \in Rates,
      r \in {Undefined, Whole(100)} }

FewUsages ==
  { NoUsage,
    TokenUsage("chat.completions", Whole(1000), Whole(200)),
    AudioUsage("audio.speech", Whole(30)),
    TokenUsage(UnknownCategory, Whole(1000), Whole(200)) }

\* inputs that combine the overrides of time and energy
OverrideInputs ==
  { [BaseInput EXCEPT !.processingTimeSeconds = t,
                      !.usage = [u EXCEPT !.processingTimeSeconds =
                                            IF u.def THEN ut ELSE Undefined],
                      !.throughput = th,
                      !.energy = e,
                      !.efficiency.efficiencyFactor = ef,
                      !.efficiency.batchSize = b] :
      t \in {Undefined, Whole(10), Zero},
      u \in FewUsages,
      ut \in {Undefined, Whole(12), Zero, NaN},
      th \in {NoThroughput, Throughput(Whole(100), Whole(2), Whole(4096))},
      e \in EnergyOverrides \cup {[NoEnergy EXCEPT !.energyKwh = Whole(-5)]},
      ef \in {Undefined, Whole(2), Zero},
      b \in {Undefined, Whole(4), Zero} }

\* efficiencyFactor and batchSize, valid and not, on each source of time
\* and energy
EfficiencyFactors == {Undefined, NaN, Zero, Whole(-5), Num(1, 2), Whole(2)}
BatchSizes == {Undefined, NaN, Zero, Whole(-5), Num(1, 2), Whole(1), Whole(4)}

EfficiencyInputs ==
  { [BaseInput EXCEPT !.processingTimeSeconds = t,
                      !.usage = u,
                      !.throughput = Throughput(Whole(100), Undefined, Undefined),
                      !.energy = e,
                      !.efficiency.efficiencyFactor = ef,
                      !.efficiency.batchSize = b] :
      t \in {Undefined, Whole(10)},
      u \in {NoUsage, TokenUsage("chat.completions", Whole(1000), Whole(200))},
      e \in EnergyOverrides, ef \in EfficiencyFactors, b \in BatchSizes }

\* energy values, valid and not, alone and together, next to the inputs
\* of the power/time path
EnergyValueInputs ==
  { [BaseInput EXCEPT !.gpuPowerW = g,
                      !.processingTimeSeconds = t,
                      !.usage = u,
                      !.throughput = th,
                      !.energy = [energyKwh |-> k, energyJoules |-> j],
                      !.efficiency.efficiencyFactor = ef,
                      !.efficiency.batchSize = b] :
      g \in {Whole(350), Whole(100)},
      t \in {Undefined, Whole(10)},
      u \in {NoUsage, TokenUsage("chat.completions", Whole(1000), Whole(200))},
      th \in {NoThroughput, Throughput(Whole(100), Undefined, Undefined)},
      k \in {Undefined, NaN, Zero, Whole(-5), Num(1, 1000)},
      j \in {Undefined, Zero, Whole(7200)},
      ef \in {Undefined, Whole(2)},
      b \in {Undefined, Zero, Whole(4)} }

\* the three sources of time next to each other, with workload metrics and
\* throughput that are valid, invalid or missing
TimePrecedenceInputs ==
  { [BaseInput EXCEPT !.processingTimeSeconds = t,
                      !.usage = [TokenUsage("chat.completions", i, Whole(200))
                                   EXCEPT !.processingTimeSeconds = ut],
                      !.throughput = Throughput(r, Undefined, Undefined),
                      !.efficiency.efficiencyFactor = ef] :
      t \in {Undefined, Whole(10), Zero, NaN},
      ut \in {Undefined, Whole(12), Zero, Whole(-5)},
      i \in {Whole(1000), Whole(-5), Undefined},
      r \in {Undefined, Whole(100), Zero},
      ef \in {Undefined, Whole(2)} }

\* inputs with one invalid field each (the first one is valid), next to the
\* sources of the grid intensity that have side effects
InvalidInputs ==
  { BaseInput,
    [BaseInput EXCEPT !.gpuPowerW = Whole(-5)],
    [BaseInput EXCEPT !.cpuPowerW = Whole(-5)],
    [BaseInput EXCEPT !.processingTimeSeconds = Zero],
    [BaseInput EXCEPT !.processingTimeSeconds = Undefined],
    [BaseInput EXCEPT !.processingTimeSeconds = Undefined,
                      !.usage = TokenUsage("chat.completions", Whole(-5), Whole(200)),
                      !.throughput = Throughput(Whole(100), Undefined, Undefined)],
    [BaseInput EXCEPT !.processingTimeSeconds = Undefined,
                      !.usage = TokenUsage("chat.completions", Whole(1000), Whole(200)),
                      !.throughput = Throughput(Zero, Undefined, Undefined)],
    [BaseInput EXCEPT !.efficiency.efficiencyFactor = Whole(-5)],
    [BaseInput EXCEPT !.efficiency.batchSize = Whole(-5)] }

SideEffectInputs ==
  { [inp EXCEPT !.region = r, !.gridCarbonIntensityGPerKwh = g,
                !.gridIntensityResolver = f] :
      inp \in InvalidInputs,
      r \in {NoRegion, Region(<<"u", "k">>),
              Region(<<"a", "t", "l", "a", "n", "t", "i", "s">>)},
      g \in {Undefined, Whole(210)},
      f \in {NoResolver, Resolver(<<Whole(55)>>), Resolver(<<Zero>>)} }

TimeInputs ==
  <<TokenInputs, EmbeddingsInputs, AudioInputs, ImageInputs, OverrideInputs,
    EfficiencyInputs, EnergyValueInputs, TimePrecedenceInputs>>

\* what a caller of estimateImpactMinimal supplies (MinimalImpactInputs): no
\* usage, no throughput, no cpuPowerW or networkPowerW
IsMinimalInput(inp) ==
  /\ ~ inp.usage.def
  /\ inp.throughput = NoThroughput
  /\ inp.cpuPowerW = Undefined
  /\ inp.networkPowerW = Undefined

MinimalPowerInputs == { inp \in PowerOverrideInputs : IsMinimalInput(inp) }
MinimalTimeInputs == { inp \in OverrideInputs : IsMinimalInput(inp) }

\* objects handed to estimateImpactMinimal that also carry fields outside
\* MinimalImpactInputs
MinimalExtraInputs ==
  { [BaseInput EXCEPT !.gpuPowerW = g, !.cpuPowerW = c, !.networkPowerW = n,
                      !.processingTimeSeconds = t, !.usage = u, !.throughput = th,
                      !.energy = e, !.region = r, !.gridIntensityResolver = f,
                      !.efficiency.batchSize = b] :
      g \in {Whole(350), Whole(-5)},
      c \in {Undefined, Whole(50), Whole(-5)},
      n \in {Undefined, Whole(20)},
      t \in {Undefined, Whole(10), Zero},
      u \in {NoUsage, TokenUsage("chat.completions", Whole(1000), Whole(200)),
              TokenUsage(UnknownCategory, Whole(1000), Whole(200))},
      th \in {NoThroughput, Throughput(Whole(100), Undefined, Undefined)},
      e \in EnergyOverrides,
      r \in {NoRegion, Region(<<"u", "k">>),
              Region(<<"a", "t", "l", "a", "n", "t", "i", "s">>)},
      f \in {NoResolver, Resolver(<<Whole(55)>>)},
      b \in {Undefined, Whole(4)} }

\* base inputs of the range evaluator
RangeBaseInputs ==
  { [BaseInput EXCEPT !.gpuPowerW = g, !.processingTimeSeconds = t[1],
                      !.usage = t[2], !.throughput = t[3], !.energy = e,
                      !.region = r, !.gridIntensityResolver = f,
                      !.efficiency.efficiencyFactor = ef,
                      !.efficiency.pue = p] :
      g \in {Whole(350), Whole(-5)},
      t \in { <<Whole(10), NoUsage, NoThroughput>>,
              <<Undefined, TokenUsage("chat.completions", Whole(1000), Whole(200)),
                Throughput(Whole(100), Undefined, Undefined)>>,
              <<Undefined, TokenUsage("chat.completions", Whole(1000), Whole(200)),
                NoThroughput>> },
      e \in EnergyOverrides \cup {[NoEnergy EXCEPT !.energyKwh = Whole(-5)]},
      r \in {NoRegion, Region(<<"a", "t", "l", "a", "n", "t", "i", "s">>)},
      f \in {NoResolver, Resolver(<<Whole(55)>>), Resolver(<<Zero>>)},
      ef \in {Undefined, Whole(2)},
      p \in {Undefined, Num(3, 2)} }

\* ranges over several fields at once, valid and invalid
CombinedRanges ==
  { [NoRanges EXCEPT !.gpuPowerW = g, !.efficiencyFactor = ef,
                     !.tokensPerSecond = tps, !.pue = p] :
      g \in {NoRange, Range(Whole(100), Whole(200)), Range(Whole(200), Whole(100))},
      ef \in {NoRange, Range(Whole(1), Whole(2)), Range(Zero, Whole(2))},
      tps \in {NoRange, Range(Whole(80), Whole(120)), Range(NaN, Whole(120))},
      p \in {NoRange, Range(Whole(2), Infinity)} }

\* ranges over one of the remaining fields
SingleRanges ==
  { [NoRanges EXCEPT !.overheadFactor = Range(Whole(1), Whole(2))],
    [NoRanges EXCEPT !.overheadFactor = Range(Whole(-5), Whole(2))],
    [NoRanges EXCEPT !.audioSecondsPerSecond = Range(Whole(2), Whole(2))],
    [NoRanges EXCEPT !.audioSecondsPerSecond = Range(Whole(2), Zero)],
    [NoRanges EXCEPT !.pixelsPerSecond = Range(Whole(4096), Whole(8192))],
    [NoRanges EXCEPT !.pixelsPerSecond = Range(Infinity, Infinity)],
    [NoRanges EXCEPT !.pue = Range(Whole(1), Whole(2))] }

RangeSets == CombinedRanges \cup SingleRanges

\* base inputs whose values lie inside the ranges, with resolvers whose
\* answers differ from one invocation to the next
NominalInputs ==
  { [BaseInput EXCEPT !.gpuPowerW = Whole(150), !.processingTimeSeconds = t[1],
                      !.usage = t[2], !.throughput = t[3], !.energy = e,
                      !.region = r, !.gridIntensityResolver = f,
                      !.efficiency.efficiencyFactor = ef,
                      !.efficiency.pue = p] :
      t \in { <<Whole(10), NoUsage, NoThroughput>>,
              <<Undefined, TokenUsage("chat.completions", Whole(1000), Whole(200)),
                Throughput(Whole(100), Undefined, Undefined)>>,
              <<Undefined, TokenUsage("chat.completions", Whole(1000), Whole(200)),
                NoThroughput>> },
      e \in {NoEnergy, [NoEnergy EXCEPT !.energyKwh = Num(1, 1000)]},
      r \in {NoRegion, Region(<<"u", "k">>)},
      f \in {NoResolver, Resolver(<<Whole(55)>>),
              Resolver(<<Whole(55), Whole(110), Whole(220)>>)},
      ef \in {Undefined, Whole(2)},
      p \in {Undefined, Num(3, 2)} }

\* the range sets that pass the validation
ValidRangeSets == { rgs \in RangeSets : validateRanges(rgs) = NoError }

\* a few ranges, valid and invalid, for the calls that are not about ranges
FewRanges ==
  { NoRanges,
    [NoRanges EXCEPT !.gpuPowerW = Range(Whole(100), Whole(200))],
    [NoRanges EXCEPT !.efficiencyFactor = Range(Whole(1), Whole(2))],
    [NoRanges EXCEPT !.pue = Range(Whole(2), Whole(1))] }


(***************************************************************************)
(* The state machine: one call of an exported function per behaviour.      *)
(* Every invocation is independent (no state survives a call), so the      *)
(* state after a call is the call's input, its outcome and its effects.    *)
(***************************************************************************)
NoOutcome == Thrown(NoError, NoGrid)

Init ==
  /\ pc = "idle"
  /\ op = "none"
  /\ input = BaseInput
  /\ ranges = NoRanges
  /\ outcome = NoOutcome
  /\ envelope = NoEnvelope
  /\ evaluations = 0
  /\ resolverCalls = <<>>
  /\ warnings = <<>>
  /\ results = <<>>
  /\ aggregate = NoAggregate

\* the state after a call that evaluated the Estimator once
Returned(name, inp, r) ==
  /\ pc' = "done"
  /\ op' = name
  /\ input' = inp
  /\ outcome' = r
  /\ evaluations' = 1
  /\ resolverCalls' = r.calls
  /\ warnings' = r.warns
  /\ UNCHANGED <<ranges, envelope, results, aggregate>>

\* estimateImpact(inp), inp drawn from one of the sets of the sequence Fs
CallEstimateImpact(Fs) ==
  /\ pc = "idle"
  /\ \E i \in 1..Len(Fs) : \E inp \in Fs[i] :
       Returned("estimateImpact", inp, estimateImpact(inp))

\* estimateImpactMinimal(m), m drawn from one of the sets of Fs
CallEstimateImpactMinimal(Fs) ==
  /\ pc = "idle"
  /\ \E i \in 1..Len(Fs) : \E m \in Fs[i] :
       Returned("estimateImpactMinimal", m, estimateImpactMinimal(m))

\* the state after estimateImpactRange(inp, rgs)
RangeReturned(inp, rgs, r) ==
  /\ pc' = "done"
  /\ op' = "estimateImpactRange"
  /\ input' = inp
  /\ ranges' = rgs
  /\ outcome' = r.base
  /\ envelope' = r.envelope
  /\ evaluations' = r.evaluations
  /\ resolverCalls' = r.calls
  /\ warnings' = r.warns
  /\ UNCHANGED <<results, aggregate>>

\* estimateImpactRange(inp, rgs), inp drawn from one of the sets of Fs and
\* rgs from R
CallEstimateImpactRange(Fs, R) ==
  /\ pc = "idle"
  /\ \E i \in 1..Len(Fs) : \E inp \in Fs[i], rgs \in R :
       RangeReturned(inp, rgs, estimateImpactRange(inp, rgs))

\* the lists of at most MaxResults results
ResultLists == UNION { [1..n -> ResultValues] : n \in 0..MaxResults }

\* aggregateImpacts(list), list drawn from L
CallAggregateImpacts(L) ==
  /\ pc = "idle"
  /\ \E list \in L :
       /\ pc' = "done"
       /\ op' = "aggregateImpacts"
       /\ results' = list
       /\ aggregate' = aggregateImpacts(list)
       /\ UNCHANGED <<input, ranges, outcome, envelope, evaluations,
                      resolverCalls, warnings>>

\* the Promise an async resolver returned is fulfilled, after the call that
\* invoked the resolver has returned (no code of the library runs then)
ResolverPromiseSettles ==
  /\ pc = "done"
  /\ resolverCalls # <<>>
  /\ input.gridIntensityResolver.rets[1].t = "promise"
  /\ pc' = "settled"
  /\ UNCHANGED <<op, input, ranges, outcome, envelope, evaluations,
                 resolverCalls, warnings, results, aggregate>>

Next ==
  \/ CallEstimateImpact(GridInputs \o PowerInputs \o TimeInputs
                          \o <<AsyncInputs, SideEffectInputs>>)
  \/ ResolverPromiseSettles
  \/ CallEstimateImpactMinimal(<<PrecedenceInputs, MinimalPowerInputs,
                                 MinimalTimeInputs, MinimalExtraInputs>>)
  \/ CallEstimateImpactRange(<<PrecedenceInputs, PowerOverrideInputs,
                               OverrideInputs>>, FewRanges)
  \/ CallEstimateImpactRange(<<RangeBaseInputs>>, RangeSets)
  \/ CallEstimateImpactRange(<<NominalInputs>>, ValidRangeSets)
  \/ CallAggregateImpacts(ResultLists)

Spec == Init /\ [][Next]_vars

\* the calls that exercise the Region and Grid Intensity Resolvers
NextGrid ==
  \/ CallEstimateImpact(GridInputs)
  \/ CallEstimateImpactMinimal(<<PrecedenceInputs>>)
  \/ CallEstimateImpactRange(<<PrecedenceInputs>>, FewRanges)

SpecGrid == Init /\ [][NextGrid]_vars

\* the calls that exercise the Power Model
NextPower ==
  \/ CallEstimateImpact(PowerInputs)
  \/ CallEstimateImpactMinimal(<<MinimalPowerInputs>>)
  \/ CallEstimateImpactRange(<<PowerOverrideInputs>>, FewRanges)

SpecPower == Init /\ [][NextPower]_vars

\* the calls that exercise the Time Model
NextTime ==
  \/ CallEstimateImpact(TimeInputs)
  \/ CallEstimateImpactMinimal(<<MinimalTimeInputs>>)
  \/ CallEstimateImpactRange(<<OverrideInputs>>, FewRanges)

SpecTime == Init /\ [][NextTime]_vars

\* the calls that exercise the minimal entry point
NextMinimal ==
  \/ CallEstimateImpact(<<MinimalExtraInputs>>)
  \/ CallEstimateImpactMinimal(<<MinimalTimeInputs, MinimalExtraInputs>>)
  \/ CallEstimateImpactRange(<<MinimalTimeInputs>>, FewRanges)

SpecMinimal == Init /\ [][NextMinimal]_vars

\* the calls that exercise the Range Evaluator
NextRange ==
  \/ CallEstimateImpact(<<RangeBaseInputs>>)
  \/ CallEstimateImpactMinimal(<<MinimalTimeInputs>>)
  \/ CallEstimateImpactRange(<<RangeBaseInputs>>, RangeSets)

SpecRange == Init /\ [][NextRange]_vars

\* the calls that fail the validation next to the sources of side effects
NextEffects ==
  \/ CallEstimateImpact(<<SideEffectInputs>>)
  \/ CallEstimateImpactMinimal(<<{ inp \in SideEffectInputs : IsMinimalInput(inp) }>>)
  \/ CallEstimateImpactRange(<<SideEffectInputs>>, FewRanges)

SpecEffects == Init /\ [][NextEffects]_vars

\* the calls that exercise the envelope of the Range Evaluator
NextEnvelope ==
  \/ CallEstimateImpact(<<NominalInputs>>)
  \/ CallEstimateImpactRange(<<NominalInputs>>, ValidRangeSets)

SpecEnvelope == Init /\ [][NextEnvelope]_vars

\* the calls with a synchronous or an async resolver
NextAsync ==
  \/ CallEstimateImpact(<<AsyncInputs>>)
  \/ CallEstimateImpactMinimal(<<{ inp \in AsyncInputs : IsMinimalInput(inp) }>>)
  \/ ResolverPromiseSettles

SpecAsync == Init /\ [][NextAsync]_vars

\* the calls that exercise the Aggregator
NextAggregate ==
  \/ CallAggregateImpacts(ResultLists)

SpecAggregate == Init /\ [][NextAggregate]_vars


(***************************************************************************)
(* Properties: Region and Grid Intensity Resolvers                         *)
(***************************************************************************)
Done == pc = "done"

\* the call went through the Estimator alone (not the range evaluator)
SingleEstimate == Done /\ op \in {"estimateImpact", "estimateImpactMinimal"}

\* the explicit gridCarbonIntensityGPerKwh is supplied and > 0
ExplicitSupplied(inp) ==
  IsNumber(inp.gridCarbonIntensityGPerKwh) /\ Gt(inp.gridCarbonIntensityGPerKwh, Zero)

\* the resolver is supplied and its (first) answer is a number > 0
ResolverAnswers(inp) ==
  /\ inp.gridIntensityResolver.def
  /\ IsNumber(inp.gridIntensityResolver.rets[1])
  /\ Gt(inp.gridIntensityResolver.rets[1], Zero)

\* a region string is supplied (the empty string counts as none)
RegionSupplied(inp) == inp.region.def /\ inp.region.s # <<>>

TableCodes == { p[1] : p \in DEFAULT_GRID_CARBON_G_PER_KWH }
AliasKeys == { p[1] : p \in REGION_ALIASES }

\* s equals key up to letter case and surrounding whitespace
MatchesKey(s, key) ==
  \E lead \in 0..Len(s) :
    /\ lead + Len(key) <= Len(s)
    /\ \A i \in 1..lead : s[i] \in WhiteSpace
    /\ \A i \in (lead + Len(key) + 1)..Len(s) : s[i] \in WhiteSpace
    /\ \A k \in 1..Len(key) : LowerChar(s[lead + k]) = key[k]

\* the canonical code the documentation gives a region string: the table
\* code it matches, else the code of the alias it matches, else none
CanonicalCode(s) ==
  IF \E c \in TableCodes : MatchesKey(s, c)
  THEN Region(CHOOSE c \in TableCodes : MatchesKey(s, c))
  ELSE IF \E a \in REGION_ALIASES : MatchesKey(s, a[1])
  THEN Region((CHOOSE a \in REGION_ALIASES : MatchesKey(s, a[1]))[2])
  ELSE NoRegion

Canonical(region) == IF region.def THEN CanonicalCode(region.s) ELSE NoRegion

TableValue(code) ==
  Whole((CHOOSE p \in DEFAULT_GRID_CARBON_G_PER_KWH : p[1] = code)[2])

GlobalIntensity == TableValue(GlobalKey)

\* the intensity of the documented precedence below the explicit value:
\* resolver answer, else table value of the canonical code, else global
DocumentedIntensity(inp) ==
  IF ResolverAnswers(inp) THEN inp.gridIntensityResolver.rets[1]
  ELSE IF Canonical(inp.region).def /\ Canonical(inp.region).s \in TableCodes
  THEN TableValue(Canonical(inp.region).s)
  ELSE GlobalIntensity

\* C2: whenever gridCarbonIntensityGPerKwh is supplied and > 0, the result
\* reports exactly that value whatever region and resolver come with it, the
\* resolver is not invoked and no unknown-region warning is emitted.
C2_ExplicitIntensityWins ==
  (Done /\ ExplicitSupplied(input)) =>
    /\ resolverCalls = <<>>
    /\ warnings = <<>>
    /\ outcome.ok =>
         outcome.gridCarbonIntensityGPerKwh = input.gridCarbonIntensityGPerKwh

\* C2 witness: an explicit value next to an unknown region and a resolver
\* that would answer
C2_Witness ==
  /\ Done /\ op = "estimateImpact" /\ outcome.ok
  /\ input.gridCarbonIntensityGPerKwh = Whole(210)
  /\ ResolverAnswers(input)
  /\ input.region = Region(<<"a", "t", "l", "a", "n", "t", "i", "s">>)
  /\ outcome.gridCarbonIntensityGPerKwh = Whole(210)

\* C3 (as claimed): with no explicit intensity > 0, a supplied resolver is
\* called once with the normalized region (none when the region is not
\* recognized) and the timestamp; its return value is used when it is a
\* number > 0; any other return is no answer and the call still returns;
\* then the table value of the normalized region is used, else the global
\* value.
C3_ResolverThenTableThenGlobal ==
  (SingleEstimate /\ ~ ExplicitSupplied(input)) =>
    /\ outcome.ok
    /\ resolverCalls =
         (IF input.gridIntensityResolver.def
          THEN <<[region |-> Canonical(input.region),
                  timestamp |-> input.timestamp]>>
          ELSE <<>>)
    /\ outcome.gridCarbonIntensityGPerKwh = DocumentedIntensity(input)

\* C4 (as claimed): with no explicit intensity and no valid resolver answer,
\* a supplied region that matches neither a table code nor an alias gives
\* the global table value, a warning outside the notes, and a result.
C4_UnknownRegionFallsBackToGlobal ==
  (SingleEstimate /\ ~ ExplicitSupplied(input) /\ ~ ResolverAnswers(input)
     /\ RegionSupplied(input) /\ ~ Canonical(input.region).def) =>
    /\ outcome.ok
    /\ outcome.gridCarbonIntensityGPerKwh = GlobalIntensity
    /\ warnings = <<UnknownRegionWarning(input.region)>>
    /\ \A i \in 1..Len(outcome.notes) : outcome.notes[i] # warnings[1]

\* C5 (as claimed): a region string that equals a table code or an alias key
\* up to letter case and surrounding whitespace resolves to the intensity of
\* its canonical code; any other string normalizes to undefined.
C5_RegionNormalization ==
  (SingleEstimate /\ RegionSupplied(input)) =>
    /\ normalizeRegion(input.region) = Canonical(input.region)
    /\ input.gridIntensityResolver.def /\ ~ ExplicitSupplied(input) =>
         resolverCalls[1].region = Canonical(input.region)
    /\ (~ ExplicitSupplied(input) /\ ~ ResolverAnswers(input)
          /\ Canonical(input.region).def) =>
         outcome.gridCarbonIntensityGPerKwh = TableValue(Canonical(input.region).s)

\* what holds of the regions that are no property name inherited from
\* Object.prototype: C3, C4 and C5 as claimed
InheritedKey(region) ==
  region.def /\ trim(toLowerCase(region.s)) \in ObjectPrototypeKeys

GridClaimsForOwnKeys ==
  ~ InheritedKey(input.region) =>
    /\ C3_ResolverThenTableThenGlobal
    /\ C4_UnknownRegionFallsBackToGlobal
    /\ C5_RegionNormalization


(***************************************************************************)
(* Properties: Power Model and results                                     *)
(***************************************************************************)
\* v >= 0 as a number (false of NaN and of what is no number)
NonNegative(v) == IsNumber(v) /\ Ge(v, Zero)

\* C1 (as claimed): every result estimateImpact returns has energyKwh >= 0,
\* co2Grams >= 0 and co2Grams = energyKwh x the reported grid intensity.
C1_ResultNonNegativeAndConsistent ==
  (SingleEstimate /\ outcome.ok) =>
    /\ NonNegative(outcome.energyKwh)
    /\ NonNegative(outcome.co2Grams)
    /\ IsNumber(outcome.gridCarbonIntensityGPerKwh)
    /\ outcome.co2Grams
         = MulNum(outcome.energyKwh, outcome.gridCarbonIntensityGPerKwh)

\* the clamp of the documentation: the bound when the value is beyond it
DocumentedClamp(v, lo, hi) ==
  IF Le(v, lo) THEN lo ELSE IF Ge(v, hi) THEN hi ELSE v

DocumentedPower(gpu, cpu, net, overhead, pue) ==
  Mul(Mul(Add(Add(gpu, IF cpu = Undefined THEN Zero ELSE cpu),
              IF net = Undefined THEN Zero ELSE net),
          IF overhead = Undefined THEN Whole(1)
          ELSE DocumentedClamp(overhead, Num(1, 10), Whole(10))),
      IF pue = Undefined THEN Whole(1)
      ELSE DocumentedClamp(pue, Whole(1), Whole(3)))

\* effective power of the input with another overheadFactor / pue
PowerWithOverhead(inp, o) ==
  computeEffectivePowerW([inp EXCEPT !.efficiency.overheadFactor = o]).effectivePowerW

PowerWithPue(inp, p) ==
  computeEffectivePowerW([inp EXCEPT !.efficiency.pue = p]).effectivePowerW

\* C6: for every accepted input, effectivePowerW = (gpuPowerW + cpuPowerW +
\* networkPowerW) x clamp(overheadFactor, 0.1, 10) x clamp(pue, 1, 3), absent
\* cpuPowerW/networkPowerW counting 0 and absent factors 1; beyond a bound
\* the factor acts as the bound; and a larger overheadFactor or pue never
\* gives a smaller effective power.
C6_EffectivePowerFormula ==
  (SingleEstimate /\ outcome.ok) =>
    /\ outcome.effectivePowerW
         = DocumentedPower(input.gpuPowerW, input.cpuPowerW, input.networkPowerW,
                           input.efficiency.overheadFactor, input.efficiency.pue)
    /\ Ge(input.efficiency.overheadFactor, Whole(10)) =>
         outcome.effectivePowerW = PowerWithOverhead(input, Whole(10))
    /\ Le(input.efficiency.overheadFactor, Num(1, 10)) =>
         outcome.effectivePowerW = PowerWithOverhead(input, Num(1, 10))
    /\ Ge(input.efficiency.pue, Whole(3)) =>
         outcome.effectivePowerW = PowerWithPue(input, Whole(3))
    /\ Le(input.efficiency.pue, Whole(1)) =>
         outcome.effectivePowerW = PowerWithPue(input, Whole(1))
    /\ \A o \in OverheadFactors :
         Le(input.efficiency.overheadFactor, o) =>
           ~ Lt(PowerWithOverhead(input, o), outcome.effectivePowerW)
    /\ \A p \in PueValues :
         Le(input.efficiency.pue, p) =>
           ~ Lt(PowerWithPue(input, p), outcome.effectivePowerW)

\* C6 witness: an accepted input whose overheadFactor is above the ceiling,
\* whose pue is below the floor and whose three powers are all supplied
C6_Witness ==
  /\ Done /\ op = "estimateImpact" /\ outcome.ok
  /\ input.gpuPowerW = Whole(100) /\ input.cpuPowerW = Whole(50)
  /\ input.networkPowerW = Whole(20)
  /\ input.efficiency.overheadFactor = Whole(20)
  /\ input.efficiency.pue = Num(1, 2)
  /\ outcome.effectivePowerW = Whole(1700)

\* gpuPowerW is non-finite or <= 0
BadGpuPower(inp) == ~ IsFinite(inp.gpuPowerW) \/ Le(inp.gpuPowerW, Zero)

C8_ZeroOrNegativeExtraPowerIsFatal ==
  (SingleEstimate
     /\ (Le(input.cpuPowerW, Zero) \/ Le(input.networkPowerW, Zero))) =>
    ~ outcome.ok

\* the part of C8 the code does enforce: a negative cpuPowerW or
\* networkPowerW is fatal
NegativeExtraPowerIsFatal ==
  (SingleEstimate
     /\ (Lt(input.cpuPowerW, Zero) \/ Lt(input.networkPowerW, Zero))) =>
    /\ ~ outcome.ok
    /\ outcome.error[1] \in {"gpuPowerW", "cpuPowerW", "networkPowerW"}


(***************************************************************************)
(* Properties: Time Model                                                  *)
(***************************************************************************)
\* v is a finite number > 0
Positive(v) == IsFinite(v) /\ Gt(v, Zero)

SupportedCategories == TokenCategories \cup {"embeddings"} \cup AudioCategories
                         \cup {"image.generation"}

\* time has to be derived from the usage metrics: no energy override, no
\* processingTimeSeconds at the top level or in the usage
DerivesTime(inp) ==
  /\ ~ Gt(inp.energy.energyKwh, Zero)
  /\ ~ Gt(inp.energy.energyJoules, Zero)
  /\ ~ IsNumber(inp.processingTimeSeconds)
  /\ inp.usage.def
  /\ ~ IsNumber(inp.usage.processingTimeSeconds)
  /\ inp.usage.category \in SupportedCategories

\* the workload metrics the category's formula uses
MetricsUsed(u) ==
  IF u.category \in TokenCategories THEN {u.inputTokens, u.outputTokens}
  ELSE IF u.category = "embeddings" THEN {u.inputTokens}
  ELSE IF u.category \in AudioCategories THEN {u.audioSeconds}
  ELSE {u.width, u.height, u.images}

\* the throughput field matched to the category
MatchedField(u) ==
  IF u.category \in TokenCategories \cup {"embeddings"} THEN "tokensPerSecond"
  ELSE IF u.category \in AudioCategories THEN "audioSecondsPerSecond"
  ELSE "pixelsPerSecond"

MatchedRate(u, th) ==
  IF MatchedField(u) = "tokensPerSecond" THEN th.tokensPerSecond
  ELSE IF MatchedField(u) = "audioSecondsPerSecond" THEN th.audioSecondsPerSecond
  ELSE th.pixelsPerSecond

\* the throughput with the fields of the other categories left out
OnlyMatched(u, th) ==
  [tokensPerSecond |->
     IF MatchedField(u) = "tokensPerSecond" THEN th.tokensPerSecond ELSE Undefined,
   audioSecondsPerSecond |->
     IF MatchedField(u) = "audioSecondsPerSecond"
     THEN th.audioSecondsPerSecond ELSE Undefined,
   pixelsPerSecond |->
     IF MatchedField(u) = "pixelsPerSecond" THEN th.pixelsPerSecond ELSE Undefined]

\* the formulas of the documentation
DocumentedTime(u, th) ==
  IF u.category \in TokenCategories
  THEN Div(Add(u.inputTokens, u.outputTokens), th.tokensPerSecond)
  ELSE IF u.category = "embeddings"
  THEN Div(u.inputTokens, th.tokensPerSecond)
  ELSE IF u.category \in AudioCategories
  THEN Div(u.audioSeconds, th.audioSecondsPerSecond)
  ELSE Div(Mul(Mul(u.width, u.height), u.images), th.pixelsPerSecond)

\* C9: when processing time is derived from usage metrics, it is
\* (inputTokens + outputTokens) / tokensPerSecond for chat.completions,
\* text.completions and ocr, inputTokens / tokensPerSecond for embeddings,
\* audioSeconds / audioSecondsPerSecond for the audio categories and
\* (width x height x images) / pixelsPerSecond for image.generation (the
\* reported time being that value divided by a supplied efficiencyFactor);
\* and the call fails unless every workload metric used is > 0.
C9_DerivedTimeFormulas ==
  (SingleEstimate /\ DerivesTime(input)) =>
    /\ outcome.ok =>
         outcome.processingTimeSeconds
           = (IF Truthy(input.efficiency.efficiencyFactor)
              THEN Div(DocumentedTime(input.usage, input.throughput),
                       input.efficiency.efficiencyFactor)
              ELSE DocumentedTime(input.usage, input.throughput))
    /\ (\E m \in MetricsUsed(input.usage) : ~ Positive(m)) => ~ outcome.ok

\* C9 witness: an ocr call of 200 + 100 tokens at 50 tokens per second
C9_Witness ==
  /\ Done /\ op = "estimateImpact" /\ outcome.ok
  /\ input.usage.category = "ocr"
  /\ input.usage.inputTokens = Whole(200) /\ input.usage.outputTokens = Whole(100)
  /\ input.throughput.tokensPerSecond = Whole(50)
  /\ outcome.processingTimeSeconds = Whole(6)

\* C10 (as claimed): when time must be derived from usage metrics, a missing,
\* non-finite or non-positive throughput field matched to the category makes
\* estimateImpact fail with an error naming that throughput field.
C10_BadThroughputNamesField ==
  (SingleEstimate /\ DerivesTime(input)
     /\ ~ Positive(MatchedRate(input.usage, input.throughput))) =>
    /\ ~ outcome.ok
    /\ outcome.error = <<"throughput." \o MatchedField(input.usage),
                         " must be a positive number.">>

\* C10 (amended): when time must be derived from usage metrics, a missing,
\* non-finite or non-positive throughput field matched to the category makes
\* estimateImpact fail; the error names that throughput field whenever the
\* checks that run before it pass (the powers and the workload metrics of
\* the category are valid); and the throughput fields of the other
\* categories change nothing in the outcome.
C10_BadThroughputIsFatal ==
  (SingleEstimate /\ DerivesTime(input)) =>
    /\ ~ Positive(MatchedRate(input.usage, input.throughput)) =>
         /\ ~ outcome.ok
         /\ outcome.energyKwh = Undefined /\ outcome.notes = <<>>
         /\ (/\ computeEffectivePowerW(input).err = NoError
             /\ \A m \in MetricsUsed(input.usage) : Positive(m)) =>
              outcome.error = <<"throughput." \o MatchedField(input.usage),
                                " must be a positive number.">>
    /\ outcome = estimateImpact([input EXCEPT !.throughput =
                                   OnlyMatched(input.usage, input.throughput)])

\* C10 witness: audio usage with no audioSecondsPerSecond, next to a valid
\* tokensPerSecond that belongs to other categories
C10_Witness ==
  /\ Done /\ op = "estimateImpact"
  /\ input.usage.category = "audio.speech"
  /\ input.usage.audioSeconds = Whole(100)
  /\ input.throughput.audioSecondsPerSecond = Undefined
  /\ input.throughput.tokensPerSecond = Whole(100)
  /\ outcome.error = <<"throughput.audioSecondsPerSecond",
                       " must be a positive number.">>


(***************************************************************************)
(* Properties: efficiency adjustments and the energy override              *)
(***************************************************************************)
\* an energy override is active: a supplied energy value > 0, which the
\* Estimator uses in place of power x time
OverrideActive(inp) ==
  Gt(inp.energy.energyKwh, Zero) \/ Gt(inp.energy.energyJoules, Zero)

\* the time of the power/time path before the efficiency adjustment
ResolvedTime(inp) ==
  IF IsNumber(inp.processingTimeSeconds) THEN inp.processingTimeSeconds
  ELSE IF IsNumber(inp.usage.processingTimeSeconds)
  THEN inp.usage.processingTimeSeconds
  ELSE DocumentedTime(inp.usage, inp.throughput)

\* the time the energy-override path reports: the top-level value, else the
\* usage's own value (a NaN counting as none), else 0
OverrideTime(inp) ==
  IF IsNumber(inp.processingTimeSeconds) THEN inp.processingTimeSeconds
  ELSE IF inp.usage.def /\ IsNumber(inp.usage.processingTimeSeconds)
          /\ inp.usage.processingTimeSeconds # NaN
  THEN inp.usage.processingTimeSeconds
  ELSE Zero

\* the energy of a result before the division by batchSize
EnergyBeforeBatch(inp, r) ==
  IF inp.efficiency.batchSize # Undefined
  THEN Mul(r.energyKwh, inp.efficiency.batchSize)
  ELSE r.energyKwh

EnergyOfPowerAndTime(r) ==
  Div(Div(Mul(r.effectivePowerW, r.processingTimeSeconds), Whole(3600)),
      Whole(1000))

\* C11 (as claimed): on the power/time path the reported
\* processingTimeSeconds is the resolved time divided by efficiencyFactor
\* when efficiencyFactor is supplied (unchanged otherwise), and energyKwh
\* before batch division is effectivePowerW x reported time / 3600 / 1000;
\* on the energy-override path the division is never applied.
C11_EfficiencyFactorDividesTime ==
  (SingleEstimate /\ outcome.ok) =>
    /\ ~ OverrideActive(input) =>
         /\ outcome.processingTimeSeconds
              = (IF input.efficiency.efficiencyFactor # Undefined
                 THEN Div(ResolvedTime(input), input.efficiency.efficiencyFactor)
                 ELSE ResolvedTime(input))
         /\ EnergyBeforeBatch(input, outcome) = EnergyOfPowerAndTime(outcome)
    /\ OverrideActive(input) => outcome.processingTimeSeconds = OverrideTime(input)

\* what holds of C11 when efficiencyFactor and batchSize are absent or
\* neither 0 nor NaN
EfficiencyAppliedWhenNonZero ==
  ((Truthy(input.efficiency.efficiencyFactor)
      \/ input.efficiency.efficiencyFactor = Undefined)
   /\ (Truthy(input.efficiency.batchSize)
      \/ input.efficiency.batchSize = Undefined)) =>
    C11_EfficiencyFactorDividesTime

\* C12 (as claimed): a supplied efficiencyFactor that is not > 0, or a
\* supplied batchSize that is not >= 1, makes estimateImpact fail; the value
\* is never silently ignored or applied.
C12_BadEfficiencyValuesAreFatal ==
  (SingleEstimate
     /\ \/ /\ input.efficiency.efficiencyFactor # Undefined
           /\ ~ Gt(input.efficiency.efficiencyFactor, Zero)
        \/ /\ input.efficiency.batchSize # Undefined
           /\ ~ Ge(input.efficiency.batchSize, Whole(1))) =>
    ~ outcome.ok

\* the part of C12 the code enforces: a negative or infinite batchSize is
\* fatal on both paths, a negative or infinite efficiencyFactor on the
\* power/time path, and the error names the field when nothing fails before
NegativeEfficiencyValuesAreFatal ==
  SingleEstimate =>
    /\ (IsNumber(input.efficiency.batchSize)
          /\ (Lt(input.efficiency.batchSize, Zero)
                \/ input.efficiency.batchSize = Infinity)) => ~ outcome.ok
    /\ (~ OverrideActive(input)
          /\ IsNumber(input.efficiency.efficiencyFactor)
          /\ (Lt(input.efficiency.efficiencyFactor, Zero)
                \/ input.efficiency.efficiencyFactor = Infinity)) =>
         /\ ~ outcome.ok
         /\ (computeEffectivePowerW(input).err = NoError
               /\ RawTime(input).err = NoError) =>
              outcome.error = <<"efficiency.efficiencyFactor",
                                " must be a positive number.">>


\* the override of the documentation: energyKwh when given (> 0), else
\* energyJoules / 3,600,000
DocumentedOverride(energy) ==
  IF Gt(energy.energyKwh, Zero) THEN energy.energyKwh
  ELSE Div(energy.energyJoules, Whole(3600000))

\* C13 (as claimed): with an energy override the result's energyKwh is
\* energy.energyKwh if given, otherwise energy.energyJoules / 3,600,000,
\* divided by batchSize when batchSize is supplied; effective power,
\* processing time, usage, throughput and efficiencyFactor have no influence.
C13_OverrideEnergy ==
  (SingleEstimate /\ outcome.ok /\ OverrideActive(input)) =>
    outcome.energyKwh
      = (IF input.efficiency.batchSize # Undefined
         THEN Div(DocumentedOverride(input.energy), input.efficiency.batchSize)
         ELSE DocumentedOverride(input.energy))

\* what holds of C13 when batchSize is absent or neither 0 nor NaN
OverrideEnergyWhenBatchNonZero ==
  (Truthy(input.efficiency.batchSize) \/ input.efficiency.batchSize = Undefined) =>
    C13_OverrideEnergy

\* what the override path needs to succeed besides the override
OverridePathInputsValid(inp) ==
  /\ computeEffectivePowerW(inp).err = NoError
  /\ IsNumber(inp.processingTimeSeconds) => Positive(inp.processingTimeSeconds)
  /\ (~ IsNumber(inp.processingTimeSeconds) /\ inp.usage.def
        /\ Truthy(inp.usage.processingTimeSeconds)) =>
       Positive(inp.usage.processingTimeSeconds)
  /\ Truthy(inp.efficiency.batchSize) => Positive(inp.efficiency.batchSize)

NothingToComputeFrom(inp) ==
  /\ ~ IsNumber(inp.processingTimeSeconds)
  /\ ~ inp.usage.def
  /\ ~ OverrideActive(inp)

MissingCombination ==
  <<"Either processingTimeSeconds, usage, or energy must be provided.">>

\* C15: estimateImpact fails and returns no result whenever the input
\* carries none of a top-level processingTimeSeconds, a usage or an energy
\* override, and never fails for that reason when one of the three is there.
C15_NothingToComputeFromIsFatal ==
  SingleEstimate =>
    /\ NothingToComputeFrom(input) =>
         /\ ~ outcome.ok
         /\ outcome.energyKwh = Undefined /\ outcome.notes = <<>>
         /\ computeEffectivePowerW(input).err = NoError =>
              outcome.error = MissingCombination
    /\ ~ NothingToComputeFrom(input) => outcome.error # MissingCombination

\* C15 witness: only gpuPowerW is supplied
C15_Witness ==
  /\ Done /\ op = "estimateImpact"
  /\ input.processingTimeSeconds = Undefined
  /\ ~ input.usage.def
  /\ input.energy = NoEnergy
  /\ outcome.error = MissingCombination


(***************************************************************************)
(* Properties: minimal entry point                                         *)
(***************************************************************************)
\* the ImpactInputs made of the eight forwarded fields of m and nothing else
ForwardedFields(m) ==
  [BaseInput EXCEPT !.gpuPowerW = m.gpuPowerW,
                    !.processingTimeSeconds = m.processingTimeSeconds,
                    !.region = m.region,
                    !.gridCarbonIntensityGPerKwh = m.gridCarbonIntensityGPerKwh,
                    !.efficiency = m.efficiency,
                    !.energy = m.energy,
                    !.timestamp = m.timestamp,
                    !.gridIntensityResolver = m.gridIntensityResolver]

\* C16: estimateImpactMinimal(m) yields exactly the outcome (result fields,
\* notes or error, and side effects) of estimateImpact on the forwarded
\* fields gpuPowerW, processingTimeSeconds, region,
\* gridCarbonIntensityGPerKwh, efficiency, energy, timestamp and
\* gridIntensityResolver; the result has no category, and cpuPowerW,
\* networkPowerW, usage and throughput never contribute.
C16_MinimalIsEstimateOnForwardedFields ==
  (Done /\ op = "estimateImpactMinimal") =>
    /\ outcome = estimateImpact(ForwardedFields(input))
    /\ outcome.category = ""
    /\ outcome.ok => outcome.effectivePowerW = DocumentedPower(
                       input.gpuPowerW, Undefined, Undefined,
                       input.efficiency.overheadFactor, input.efficiency.pue)

\* C16 witness: the object carries cpuPowerW, a usage and a throughput, and
\* the result shows none of them
C16_Witness ==
  /\ Done /\ op = "estimateImpactMinimal" /\ outcome.ok
  /\ input.cpuPowerW = Whole(50)
  /\ input.usage.def /\ input.usage.category = "chat.completions"
  /\ input.throughput.tokensPerSecond = Whole(100)
  /\ input.processingTimeSeconds = Whole(10)
  /\ outcome.category = ""
  /\ outcome.effectivePowerW = Whole(350)
  /\ outcome.processingTimeSeconds = Whole(10)


(***************************************************************************)
(* Properties: Range Evaluator                                             *)
(***************************************************************************)
RangedCall == Done /\ op = "estimateImpactRange"

RangeFields ==
  {"gpuPowerW", "pue", "overheadFactor", "efficiencyFactor", "tokensPerSecond",
   "audioSecondsPerSecond", "pixelsPerSecond"}

\* a supplied range is valid: min > 0, max > 0, both finite, max >= min
ValidRange(range) ==
  /\ Positive(range.min)
  /\ Positive(range.max)
  /\ Ge(range.max, range.min)

AllRangesValid(rgs) == \A f \in RangeFields : rgs[f].def => ValidRange(rgs[f])

\* C17: in estimateImpactRange every supplied range is validated (min > 0,
\* max > 0, both finite, max >= min) before any computation: if a supplied
\* range is invalid the call fails before any Estimator evaluation runs, so
\* the resolver has not been invoked and no warning has been emitted,
\* whatever the base input is; valid ranges never fail the validation.
C17_RangesValidatedFirst ==
  RangedCall =>
    /\ ~ AllRangesValid(ranges) =>
         /\ ~ outcome.ok
         /\ envelope = NoEnvelope
         /\ evaluations = 0
         /\ resolverCalls = <<>>
         /\ warnings = <<>>
         /\ \E f \in RangeFields :
              /\ ranges[f].def /\ ~ ValidRange(ranges[f])
              /\ outcome.error[1] \in {f \o ".min", f \o ".max"}
    /\ AllRangesValid(ranges) => evaluations >= 1

\* C17 witness: an invalid range next to a base input whose evaluation
\* would invoke the resolver and warn about the region
C17_Witness ==
  /\ RangedCall
  /\ ranges.tokensPerSecond = Range(NaN, Whole(120))
  /\ ranges.gpuPowerW = Range(Whole(100), Whole(200))
  /\ input.gridIntensityResolver = Resolver(<<Zero>>)
  /\ input.region = Region(<<"a", "t", "l", "a", "n", "t", "i", "s">>)
  /\ input.gpuPowerW = Whole(350)
  /\ outcome.error = <<"tokensPerSecond.min", " must be a positive number.">>
  /\ evaluations = 0

\* C18: when the base input carries an energy override, estimateImpactRange
\* ignores all supplied ranges: energyKwhMin = energyKwhMax = base.energyKwh,
\* co2GramsMin = co2GramsMax = base.co2Grams, the base is the Estimator's
\* result on the unchanged input, and the Estimator is evaluated only once.
C18_OverrideIgnoresRanges ==
  (RangedCall /\ OverrideActive(input) /\ AllRangesValid(ranges)) =>
    /\ evaluations = 1
    /\ outcome = estimateImpact(input)
    /\ outcome.ok =>
         /\ envelope.energyKwhMin = outcome.energyKwh
         /\ envelope.energyKwhMax = outcome.energyKwh
         /\ envelope.co2GramsMin = outcome.co2Grams
         /\ envelope.co2GramsMax = outcome.co2Grams
    /\ ~ outcome.ok => envelope = NoEnvelope

\* C18 witness: an energy override next to ranges for gpuPowerW and
\* efficiencyFactor that would move a power x time estimate
C18_Witness ==
  /\ RangedCall /\ outcome.ok
  /\ input.energy.energyKwh = Num(1, 1000)
  /\ ranges.gpuPowerW = Range(Whole(100), Whole(200))
  /\ ranges.efficiencyFactor = Range(Whole(1), Whole(2))
  /\ evaluations = 1
  /\ envelope.energyKwhMin = Num(1, 1000)
  /\ envelope.energyKwhMax = Num(1, 1000)

\* the value a field takes in the low ("min") or high ("max") input
Ranged(value, range, pick) ==
  IF range.def THEN (IF pick = "min" THEN range.min ELSE range.max) ELSE value

\* the low or high input of the documentation: every ranged field replaced
\* by the bound of its range, every other field as in the base input
ExtremeInput(inp, rgs, pick) ==
  [inp EXCEPT
     !.gpuPowerW = Ranged(inp.gpuPowerW, rgs.gpuPowerW, pick),
     !.throughput.tokensPerSecond =
        Ranged(inp.throughput.tokensPerSecond, rgs.tokensPerSecond, pick),
     !.throughput.audioSecondsPerSecond =
        Ranged(inp.throughput.audioSecondsPerSecond, rgs.audioSecondsPerSecond, pick),
     !.throughput.pixelsPerSecond =
        Ranged(inp.throughput.pixelsPerSecond, rgs.pixelsPerSecond, pick),
     !.efficiency.pue = Ranged(inp.efficiency.pue, rgs.pue, pick),
     !.efficiency.overheadFactor =
        Ranged(inp.efficiency.overheadFactor, rgs.overheadFactor, pick),
     !.efficiency.efficiencyFactor =
        Ranged(inp.efficiency.efficiencyFactor, rgs.efficiencyFactor, pick)]

Smaller(a, b) == IF Le(a, b) THEN a ELSE b
Larger(a, b) == IF Ge(a, b) THEN a ELSE b

\* the envelope of two results
EnvelopeOf(low, high) ==
  [energyKwhMin |-> Smaller(low.energyKwh, high.energyKwh),
   energyKwhMax |-> Larger(low.energyKwh, high.energyKwh),
   co2GramsMin |-> Smaller(low.co2Grams, high.co2Grams),
   co2GramsMax |-> Larger(low.co2Grams, high.co2Grams)]

\* C19 (as claimed): without an energy override, estimateImpactRange
\* evaluates the Estimator on the low input and on the high input and
\* reports the pointwise min and max of the two results, never assuming that
\* low gives the minimum.
C19_EnvelopeOfLowAndHigh ==
  (RangedCall /\ ~ OverrideActive(input) /\ AllRangesValid(ranges)
     /\ estimateImpact(input).ok) =>
    /\ evaluations = 3
    /\ outcome.ok
    /\ envelope = EnvelopeOf(estimateImpact(ExtremeInput(input, ranges, "min")),
                             estimateImpact(ExtremeInput(input, ranges, "max")))

\* what holds of C19 when no energy value is supplied at all, or the
\* supplied value is 0 or NaN
EnvelopeWhenNoEnergySupplied ==
  (~ Truthy(input.energy.energyKwh) /\ ~ Truthy(input.energy.energyJoules)) =>
    C19_EnvelopeOfLowAndHigh

\* the direction-agnostic case of C19: only efficiencyFactor is ranged over
\* {min 1, max 2}, and the minimum is the high evaluation's energy
InverseFieldEnvelope ==
  (RangedCall /\ outcome.ok /\ input.energy = NoEnergy
     /\ ranges = [NoRanges EXCEPT !.efficiencyFactor = Range(Whole(1), Whole(2))]) =>
    /\ envelope.energyKwhMin
         = estimateImpact(ExtremeInput(input, ranges, "max")).energyKwh
    /\ envelope.energyKwhMax
         = estimateImpact(ExtremeInput(input, ranges, "min")).energyKwh
    /\ Lt(envelope.energyKwhMin, envelope.energyKwhMax)

(***************************************************************************)
(* Aggregator                                                              *)
(***************************************************************************)
Aggregated == pc = "done" /\ op = "aggregateImpacts"

\* the sum of field f over list, added in list order
RECURSIVE SumInOrder(_, _)
SumInOrder(list, f) ==
  IF list = <<>> THEN Double(0, 0)
  ELSE DoubleAdd(SumInOrder(SubSeq(list, 1, Len(list) - 1), f),
                 list[Len(list)][f])

\* the sum of field f over list as a real number
RECURSIVE RealSum(_, _)
RealSum(list, f) ==
  IF list = <<>> THEN Double(0, 0)
  ELSE Double(RealSum(Tail(list), f).big + Head(list)[f].big,
              RealSum(Tail(list), f).units + Head(list)[f].units)

\* the orderings of list
Orderings(list) ==
  { [i \in 1..Len(list) |-> list[p[i]]] :
      p \in { q \in [1..Len(list) -> 1..Len(list)] :
                \A i, j \in 1..Len(list) : q[i] = q[j] => i = j } }

\* C20: aggregateImpacts is a pure fold: count is the length of the list,
\* energyKwh the sum of the elements' energyKwh, co2Grams the sum of their
\* co2Grams, the empty list yields {count 0, energyKwh 0, co2Grams 0}, and
\* every permutation of the list yields the same output.
C20_AggregateIsOrderIndependentFold ==
  Aggregated =>
    /\ aggregate.count = Len(results)
    /\ aggregate.energyKwh = SumInOrder(results, "energyKwh")
    /\ aggregate.co2Grams = SumInOrder(results, "co2Grams")
    /\ results = <<>> =>
         aggregate = [count |-> 0, energyKwh |-> Double(0, 0),
                      co2Grams |-> Double(0, 0)]
    /\ \A other \in Orderings(results) : aggregateImpacts(other) = aggregate

\* what holds of the fold: count, the sums in list order and the empty list
\* are as stated, and the output is the same for every ordering whenever the
\* real sums of both fields are below 2^53 units, where no addition rounds
AggregateIsFoldInListOrder ==
  Aggregated =>
    /\ aggregate.count = Len(results)
    /\ aggregate.energyKwh = SumInOrder(results, "energyKwh")
    /\ aggregate.co2Grams = SumInOrder(results, "co2Grams")
    /\ results = <<>> =>
         aggregate = [count |-> 0, energyKwh |-> Double(0, 0),
                      co2Grams |-> Double(0, 0)]
    /\ (RealSum(results, "energyKwh").big = 0
          /\ RealSum(results, "co2Grams").big = 0) =>
         /\ aggregate.energyKwh = RealSum(results, "energyKwh")
         /\ aggregate.co2Grams = RealSum(results, "co2Grams")
         /\ \A other \in Orderings(results) :
              aggregateImpacts(other) = aggregate

\* two orderings of one list give different totals
AggregateDependsOnOrder ==
  /\ Aggregated
  /\ \E other \in Orderings(results) :
       aggregateImpacts(other).energyKwh # aggregate.energyKwh

(***************************************************************************)
(* Properties: async resolver                                              *)
(***************************************************************************)
\* the call has returned, and the Promise of its resolver may have been
\* fulfilled since
HasReturned == pc \in {"done", "settled"}

\* an estimate with an async resolver and no explicit intensity
AsyncResolverConsulted ==
  /\ HasReturned /\ op \in {"estimateImpact", "estimateImpactMinimal"}
  /\ input.gridIntensityResolver.def
  /\ input.gridIntensityResolver.rets[1].t = "promise"
  /\ Gt(Fulfilled(input.gridIntensityResolver.rets[1]), Zero)
  /\ ~ ExplicitSupplied(input)

\* C21: when the supplied gridIntensityResolver is async (its call yields a
\* pending value that later resolves to a positive number) and no explicit
\* intensity is given, the estimate waits for exactly one resolution: there
\* is no result while the value is pending, the resolver is invoked once,
\* and the result's gridCarbonIntensityGPerKwh is the resolved number, not
\* the region-table or global value.
C21_AsyncResolverAwaited ==
  AsyncResolverConsulted =>
    /\ Len(resolverCalls) = 1
    /\ outcome.ok => pc = "settled"
    /\ outcome.ok =>
         outcome.gridCarbonIntensityGPerKwh
           = Fulfilled(input.gridIntensityResolver.rets[1])

\* what holds of an async resolver: it is invoked once, the call returns
\* at once, and the pending value counts as no answer, so the intensity is
\* the table value of the region, else the global value, before and after
\* the fulfilment
AsyncResolverIsNoAnswer ==
  AsyncResolverConsulted =>
    /\ Len(resolverCalls) = 1
    /\ outcome.ok
    /\ outcome.gridCarbonIntensityGPerKwh =
         (IF Canonical(input.region).def
          THEN TableValue(Canonical(input.region).s)
          ELSE GlobalIntensity)

(***************************************************************************)
(* Properties: the envelope of the Range Evaluator                         *)
(***************************************************************************)
SuppliedRanges(rgs) == { f \in RangeFields : rgs[f].def }

\* the assignments of a bound to every supplied range
Corners(rgs) == [SuppliedRanges(rgs) -> {"min", "max"}]

\* the bound the corner picks for field f
CornerValue(value, rgs, f, corner) ==
  IF rgs[f].def THEN Ranged(value, rgs[f], corner[f]) ELSE value

\* the base input with every ranged field at the bound the corner picks
CornerInput(inp, rgs, corner) ==
  [inp EXCEPT
     !.gpuPowerW = CornerValue(inp.gpuPowerW, rgs, "gpuPowerW", corner),
     !.throughput.tokensPerSecond =
        CornerValue(inp.throughput.tokensPerSecond, rgs, "tokensPerSecond", corner),
     !.throughput.audioSecondsPerSecond =
        CornerValue(inp.throughput.audioSecondsPerSecond, rgs,
                    "audioSecondsPerSecond", corner),
     !.throughput.pixelsPerSecond =
        CornerValue(inp.throughput.pixelsPerSecond, rgs, "pixelsPerSecond", corner),
     !.efficiency.pue = CornerValue(inp.efficiency.pue, rgs, "pue", corner),
     !.efficiency.overheadFactor =
        CornerValue(inp.efficiency.overheadFactor, rgs, "overheadFactor", corner),
     !.efficiency.efficiencyFactor =
        CornerValue(inp.efficiency.efficiencyFactor, rgs, "efficiencyFactor", corner)]

\* the results of the Estimator on the corners of the ranges
CornerResults(inp, rgs) ==
  { estimateImpact(CornerInput(inp, rgs, corner)) : corner \in Corners(rgs) }

\* lo is the least and hi the greatest of the values
LeastAndGreatest(lo, hi, values) ==
  /\ lo \in values
  /\ hi \in values
  /\ \A v \in values : Le(lo, v) /\ Le(v, hi)

\* a range call that returned an envelope
EnvelopeReturned == RangedCall /\ outcome.ok /\ envelope # NoEnvelope

\* C22: in the result of estimateImpactRange, energyKwhMin is the minimum
\* and energyKwhMax the maximum energy over every combination of values in
\* which each ranged input lies within its [min, max] (the combinations of
\* the bounds among them); likewise co2GramsMin and co2GramsMax for CO2.
C22_EnvelopeCoversAllCombinations ==
  EnvelopeReturned =>
    /\ LeastAndGreatest(envelope.energyKwhMin, envelope.energyKwhMax,
                        { r.energyKwh : r \in CornerResults(input, ranges) })
    /\ LeastAndGreatest(envelope.co2GramsMin, envelope.co2GramsMax,
                        { r.co2Grams : r \in CornerResults(input, ranges) })

\* the resolver, if any, gives the same answer at every invocation
DeterministicResolver(inp) ==
  \A k \in 1..Len(inp.gridIntensityResolver.rets) :
    inp.gridIntensityResolver.rets[k] = inp.gridIntensityResolver.rets[1]

\* what holds of C22: with at most one range supplied and a resolver that
\* answers the same every time, the envelope is the least and the greatest
\* over the bounds
EnvelopeOfOneRange ==
  (Cardinality(SuppliedRanges(ranges)) <= 1 /\ DeterministicResolver(input)) =>
    C22_EnvelopeCoversAllCombinations

(***************************************************************************)
(* Properties: unsupported categories and the precedence of time           *)
(***************************************************************************)
\* estimateImpact was called with a usage of a category outside the eight
UnsupportedCategoryCall ==
  /\ Done /\ op = "estimateImpact"
  /\ input.usage.def
  /\ input.usage.category \notin SupportedCategories

\* C23: any input whose usage carries a category outside the eight supported
\* ones makes estimateImpact fail with the fatal "Unsupported usage category"
\* error and produce no result, whichever time or energy overrides accompany
\* it.
C23_UnsupportedCategoryIsFatal ==
  UnsupportedCategoryCall =>
    /\ ~ outcome.ok
    /\ outcome.error = <<"Unsupported usage category.">>

\* what holds of C23: the unsupported category is fatal when the time has to
\* be derived from the usage, that is without an energy override, a top-level
\* processingTimeSeconds or a processingTimeSeconds in the usage
UnsupportedCategoryIsFatalWhenDerived ==
  (UnsupportedCategoryCall
     /\ ~ OverrideActive(input)
     /\ ~ IsNumber(input.processingTimeSeconds)
     /\ ~ IsNumber(input.usage.processingTimeSeconds)) =>
    /\ ~ outcome.ok
    /\ outcome.error = <<"Unsupported usage category.">>

\* an unsupported category is carried into a returned result
UnsupportedCategoryReturned ==
  /\ UnsupportedCategoryCall
  /\ outcome.ok
  /\ outcome.category = UnknownCategory

\* a time override is supplied: the top-level processingTimeSeconds, or
\* the usage's own
TimeOverrideSupplied(inp) ==
  IsNumber(inp.processingTimeSeconds)
    \/ (inp.usage.def /\ IsNumber(inp.usage.processingTimeSeconds))

\* the override the precedence chooses: the top-level one first
ChosenTimeOverride(inp) ==
  IF IsNumber(inp.processingTimeSeconds) THEN inp.processingTimeSeconds
  ELSE inp.usage.processingTimeSeconds

\* the input without workload metrics and without throughput
WithoutWorkload(inp) ==
  [inp EXCEPT !.throughput = NoThroughput,
              !.usage.inputTokens = Undefined, !.usage.outputTokens = Undefined,
              !.usage.audioSeconds = Undefined, !.usage.width = Undefined,
              !.usage.height = Undefined, !.usage.images = Undefined]

\* the time after the efficiency adjustment
Adjusted(time, inp) ==
  IF Truthy(inp.efficiency.efficiencyFactor)
  THEN Div(time, inp.efficiency.efficiencyFactor) ELSE time

\* C24: on the power/time path the processing time is resolved by strict
\* precedence: the top-level processingTimeSeconds if supplied, else the
\* usage's own processingTimeSeconds, else the category formula; the chosen
\* override must be > 0 (else the call is fatal), and when an override is
\* chosen the usage's workload metrics and the throughput are neither used
\* nor validated.
C24_TimePrecedence ==
  (Done /\ op = "estimateImpact" /\ ~ OverrideActive(input)) =>
    /\ TimeOverrideSupplied(input) =>
         /\ ~ Positive(ChosenTimeOverride(input)) => ~ outcome.ok
         /\ outcome.ok =>
              outcome.processingTimeSeconds
                = Adjusted(ChosenTimeOverride(input), input)
         /\ outcome = estimateImpact(WithoutWorkload(input))
         /\ (Positive(ChosenTimeOverride(input))
               /\ input.efficiency = NoEfficiency
               /\ computeEffectivePowerW(input).err = NoError) => outcome.ok
    /\ (DerivesTime(input) /\ outcome.ok) =>
         outcome.processingTimeSeconds
           = Adjusted(DocumentedTime(input.usage, input.throughput), input)

\* C24 witness: both overrides are supplied next to a negative inputTokens
\* and a zero throughput, and the top-level one is reported
C24_Witness ==
  /\ Done /\ op = "estimateImpact" /\ outcome.ok
  /\ input.processingTimeSeconds = Whole(10)
  /\ input.usage.processingTimeSeconds = Whole(12)
  /\ input.usage.inputTokens = Whole(-5)
  /\ input.throughput.tokensPerSecond = Zero
  /\ outcome.processingTimeSeconds = Whole(10)

\* the usage's own override is reported when the top-level one is absent
UsageTimeOverrideReported ==
  /\ Done /\ op = "estimateImpact" /\ outcome.ok
  /\ input.processingTimeSeconds = Undefined
  /\ input.usage.processingTimeSeconds = Whole(12)
  /\ input.usage.inputTokens = Undefined
  /\ input.throughput.tokensPerSecond = Undefined
  /\ outcome.processingTimeSeconds = Whole(12)

(***************************************************************************)
(* Properties: resolver answers and side effects                           *)
(***************************************************************************)
\* an estimate that consulted the resolver
ResolverConsulted ==
  SingleEstimate /\ ~ ExplicitSupplied(input) /\ input.gridIntensityResolver.def

\* C25: a resolver return value is used as the grid intensity only if it is
\* a finite number > 0: a non-finite return (positive infinity or NaN) is
\* treated as no answer, so the returned result has a finite
\* gridCarbonIntensityGPerKwh and a finite co2Grams.
C25_ResolverAnswerMustBeFinite ==
  (ResolverConsulted /\ outcome.ok) =>
    /\ ~ IsFinite(input.gridIntensityResolver.rets[1]) =>
         outcome.gridCarbonIntensityGPerKwh # input.gridIntensityResolver.rets[1]
    /\ IsFinite(outcome.gridCarbonIntensityGPerKwh)
    /\ IsFinite(outcome.co2Grams)

\* what holds of C25: the return value is used exactly when it is a number
\* > 0, positive infinity included; NaN, zero, the negatives and the values
\* that are no number are no answer, and the intensity is then finite
ResolverAnswerMustBePositive ==
  (ResolverConsulted /\ outcome.ok /\ ~ InheritedKey(input.region)) =>
    /\ ResolverAnswers(input) =>
         outcome.gridCarbonIntensityGPerKwh = input.gridIntensityResolver.rets[1]
    /\ ~ ResolverAnswers(input) =>
         /\ IsFinite(outcome.gridCarbonIntensityGPerKwh)
         /\ IsFinite(outcome.co2Grams)
         /\ outcome.gridCarbonIntensityGPerKwh = DocumentedIntensity(input)

\* an infinite resolver answer reaches the result
InfiniteIntensityReturned ==
  /\ ResolverConsulted /\ outcome.ok
  /\ input.gridIntensityResolver.rets[1] = Infinity
  /\ outcome.gridCarbonIntensityGPerKwh = Infinity
  /\ outcome.co2Grams = Infinity

\* estimateImpact failed with a fatal input error
FatalInputError == Done /\ op = "estimateImpact" /\ ~ outcome.ok

\* C28: input validation precedes side effects: whenever estimateImpact
\* fails with a fatal input error (invalid gpuPowerW, cpuPowerW,
\* processingTimeSeconds, usage metric, throughput, efficiencyFactor,
\* batchSize, or the missing time/usage/energy combination), the
\* gridIntensityResolver has not been invoked and no unknown-region warning
\* has been emitted during that call.
C28_ValidationPrecedesSideEffects ==
  FatalInputError =>
    /\ resolverCalls = <<>>
    /\ warnings = <<>>

\* what holds of C28: the side effects of a call do not depend on whether
\* the input is valid; they are those of the call with the same region,
\* explicit intensity, resolver and timestamp and an input that is valid
SideEffectsPrecedeValidation ==
  (Done /\ op = "estimateImpact") =>
    /\ resolverCalls =
         estimateImpact([BaseInput EXCEPT
           !.region = input.region,
           !.gridCarbonIntensityGPerKwh = input.gridCarbonIntensityGPerKwh,
           !.gridIntensityResolver = input.gridIntensityResolver,
           !.timestamp = input.timestamp]).calls
    /\ warnings =
         estimateImpact([BaseInput EXCEPT
           !.region = input.region,
           !.gridCarbonIntensityGPerKwh = input.gridCarbonIntensityGPerKwh,
           !.gridIntensityResolver = input.gridIntensityResolver,
           !.timestamp = input.timestamp]).warns
    /\ ExplicitSupplied(input) => resolverCalls = <<>> /\ warnings = <<>>

\* a call that fails for its gpuPowerW has invoked the resolver and warned
\* about the region
SideEffectsOfFailedCall ==
  /\ FatalInputError
  /\ input.gpuPowerW = Whole(-5)
  /\ Len(resolverCalls) = 1
  /\ warnings = <<UnknownRegionWarning(input.region)>>

(***************************************************************************)
(* Properties: the Range Evaluator and its base evaluation                 *)
(***************************************************************************)
\* a range call whose usage needs tokensPerSecond, supplied through the
\* range only
ThroughputOnlyInRange ==
  /\ RangedCall
  /\ DerivesTime(input)
  /\ input.usage.category \in TokenCategories
  /\ input.throughput.tokensPerSecond = Undefined
  /\ ranges.tokensPerSecond.def
  /\ AllRangesValid(ranges)

\* C26: estimateImpactRange accepts a base input whose usage needs a
\* throughput field that is supplied only through the matching range (chat
\* usage with ranges.tokensPerSecond = {min 80, max 120} and no throughput in
\* the base input): the call returns a range result whose min and max come
\* from evaluating at the range's min and max instead of failing for the
\* missing throughput.
C26_ThroughputFromRangeAccepted ==
  ThroughputOnlyInRange =>
    /\ outcome.ok
    /\ envelope.energyKwhMin =
         Smaller(estimateImpact(ExtremeInput(input, ranges, "min")).energyKwh,
                 estimateImpact(ExtremeInput(input, ranges, "max")).energyKwh)
    /\ envelope.energyKwhMax =
         Larger(estimateImpact(ExtremeInput(input, ranges, "min")).energyKwh,
                estimateImpact(ExtremeInput(input, ranges, "max")).energyKwh)

\* what holds of C26: the base evaluation fails for the missing throughput
\* and the low and high inputs are never evaluated, although both would
\* give a result
ThroughputFromRangeRejected ==
  ThroughputOnlyInRange =>
    /\ ~ outcome.ok
    /\ outcome.error
         = <<"throughput.tokensPerSecond", " must be a positive number.">>
    /\ evaluations = 1
    /\ envelope = NoEnvelope
    /\ estimateImpact(ExtremeInput(input, ranges, "min")).ok
    /\ estimateImpact(ExtremeInput(input, ranges, "max")).ok

\* the documentation's call: chat usage, no throughput, tokensPerSecond
\* ranged over 80..120
ThroughputRangeExample ==
  /\ ThroughputOnlyInRange
  /\ ranges = [NoRanges EXCEPT !.tokensPerSecond = Range(Whole(80), Whole(120))]
  /\ ~ outcome.ok

\* the result was computed on the Estimator's energy-override path
OnOverridePath(r) ==
  \E i \in 1..Len(r.notes) : r.notes[i] = TextNote("Energy override provided.")

\* the Range Evaluator skipped the low and high evaluations and reported
\* min = max = base
RangesIgnored ==
  /\ evaluations = 1
  /\ envelope.energyKwhMin = outcome.energyKwh
  /\ envelope.energyKwhMax = outcome.energyKwh
  /\ envelope.co2GramsMin = outcome.co2Grams
  /\ envelope.co2GramsMax = outcome.co2Grams

\* C27: the Range Evaluator and the Estimator agree on whether an energy
\* override is active: estimateImpactRange skips the low and high
\* evaluations and returns min = max = base if and only if base was computed
\* on the Estimator's energy-override path (its notes contain "Energy
\* override provided."); ranges are never ignored for a base result that
\* was computed from power x time.
C27_OverrideAgreement ==
  (RangedCall /\ outcome.ok) =>
    (RangesIgnored <=> OnOverridePath(outcome))

\* what holds of C27: a base computed on the override path always has its
\* ranges ignored, and the two agree whenever no negative energy value is
\* supplied
OverrideAgreementWithoutNegativeEnergy ==
  (RangedCall /\ outcome.ok) =>
    /\ OnOverridePath(outcome) => RangesIgnored
    /\ (~ Lt(input.energy.energyKwh, Zero) /\ ~ Lt(input.energy.energyJoules, Zero)) =>
         (evaluations = 1 <=> OnOverridePath(outcome))

\* ranges are ignored for a base computed from power x time
RangesIgnoredForPowerTimeBase ==
  /\ RangedCall /\ outcome.ok
  /\ input.energy.energyKwh = Whole(-5)
  /\ ranges.gpuPowerW = Range(Whole(100), Whole(200))
  /\ ~ OnOverridePath(outcome)
  /\ RangesIgnored

\* C29: in one estimateImpactRange call the base, low and high evaluations
\* use the same grid carbon intensity, for any resolver including one whose
\* answers differ between successive invocations: co2GramsMin = energyKwhMin
\* x base.gridCarbonIntensityGPerKwh and co2GramsMax = energyKwhMax x
\* base.gridCarbonIntensityGPerKwh, and the resolver is consulted at most
\* once per call.
C29_OneIntensityPerRangeCall ==
  EnvelopeReturned =>
    /\ envelope.co2GramsMin
         = Mul(envelope.energyKwhMin, outcome.gridCarbonIntensityGPerKwh)
    /\ envelope.co2GramsMax
         = Mul(envelope.energyKwhMax, outcome.gridCarbonIntensityGPerKwh)
    /\ Len(resolverCalls) <= 1

\* what holds of C29: every evaluation resolves the intensity anew, so a
\* supplied resolver is invoked once per evaluation unless an explicit
\* intensity is given, each time with the same arguments; the CO2 bounds are
\* the energy bounds times the base intensity when the resolver answers the
\* same every time
OneResolutionPerEvaluation ==
  EnvelopeReturned =>
    /\ Len(resolverCalls) =
         (IF input.gridIntensityResolver.def /\ ~ ExplicitSupplied(input)
          THEN evaluations ELSE 0)
    /\ \A i \in 1..Len(resolverCalls) : resolverCalls[i] = resolverCalls[1]
    /\ DeterministicResolver(input) =>
         /\ envelope.co2GramsMin
              = Mul(envelope.energyKwhMin, outcome.gridCarbonIntensityGPerKwh)
         /\ envelope.co2GramsMax
              = Mul(envelope.energyKwhMax, outcome.gridCarbonIntensityGPerKwh)

\* the three evaluations of one call used three intensities
ThreeIntensitiesInOneCall ==
  /\ EnvelopeReturned
  /\ input.gridIntensityResolver = Resolver(<<Whole(55), Whole(110), Whole(220)>>)
  /\ ranges = [NoRanges EXCEPT !.gpuPowerW = Range(Whole(100), Whole(200))]
  /\ Len(resolverCalls) = 3
  /\ outcome.gridCarbonIntensityGPerKwh = Whole(55)
  /\ envelope.co2GramsMin = Mul(envelope.energyKwhMin, Whole(110))
  /\ envelope.co2GramsMax = Mul(envelope.energyKwhMax, Whole(220))

\* the base value v of a ranged field lies within the range; an absent
\* value counts as the default
BaseValueInside(v, range, default) ==
  range.def =>
    /\ Le(range.min, IF v = Undefined THEN default ELSE v)
    /\ Le((IF v = Undefined THEN default ELSE v), range.max)

\* each ranged field's base value lies within its range
BaseInsideRanges(inp, rgs) ==
  /\ BaseValueInside(inp.gpuPowerW, rgs.gpuPowerW, Undefined)
  /\ BaseValueInside(inp.throughput.tokensPerSecond, rgs.tokensPerSecond, Undefined)
  /\ BaseValueInside(inp.throughput.audioSecondsPerSecond,
                     rgs.audioSecondsPerSecond, Undefined)
  /\ BaseValueInside(inp.throughput.pixelsPerSecond, rgs.pixelsPerSecond, Undefined)
  /\ BaseValueInside(inp.efficiency.pue, rgs.pue, Whole(1))
  /\ BaseValueInside(inp.efficiency.overheadFactor, rgs.overheadFactor, Whole(1))
  /\ BaseValueInside(inp.efficiency.efficiencyFactor, rgs.efficiencyFactor, Whole(1))

NominalInside ==
  /\ Le(envelope.energyKwhMin, outcome.energyKwh)
  /\ Le(outcome.energyKwh, envelope.energyKwhMax)
  /\ Le(envelope.co2GramsMin, outcome.co2Grams)
  /\ Le(outcome.co2Grams, envelope.co2GramsMax)

\* C30: the nominal result lies inside the reported envelope: for every
\* successful estimateImpactRange call with a deterministic resolver in
\* which each ranged field's base value lies within its supplied [min, max]
\* (an absent pue, overheadFactor or efficiencyFactor counted as 1.0),
\* energyKwhMin <= base.energyKwh <= energyKwhMax and co2GramsMin <=
\* base.co2Grams <= co2GramsMax, also when several ranges with opposite
\* effects on energy are supplied together.
C30_NominalInsideEnvelope ==
  (EnvelopeReturned /\ DeterministicResolver(input)
     /\ BaseInsideRanges(input, ranges)) =>
    NominalInside

\* what holds of C30: the nominal result lies inside the envelope when at
\* most one range is supplied
NominalInsideEnvelopeOfOneRange ==
  Cardinality(SuppliedRanges(ranges)) <= 1 => C30_NominalInsideEnvelope

\* the nominal result lies outside an envelope of two opposite ranges
NominalOutsideEnvelope ==
  /\ EnvelopeReturned /\ DeterministicResolver(input)
  /\ BaseInsideRanges(input, ranges)
  /\ SuppliedRanges(ranges) = {"gpuPowerW", "efficiencyFactor"}
  /\ Lt(envelope.energyKwhMax, outcome.energyKwh)

====
